---- MODULE Spec2Model ----
(***************************************************************************)
(* Verification model of the nimbus notification pipeline                  *)
(* (lalith-99/nimbus-app): the circuit breaker, the notification store     *)
(* with its worker and dead-letter queue, and the idempotent acceptance    *)
(* path.  Each subsystem has its own next-state relation over one shared   *)
(* state, so a property is checked under the specification of the          *)
(* subsystem it is about.                                                  *)
(***************************************************************************)
EXTENDS Integers, Sequences, FiniteSets, TLC

(***************************************************************************)
(* Bounds of the model and configuration values.                           *)
(***************************************************************************)
\* circuitbreaker.Config, as the breaker tests configure it (max_failures,
\* recovery_timeout in clock ticks, half_open_max_requests).
MaxFailures == 2
RecoveryTimeout == 2
HalfOpenMaxRequests == 2
\* Concurrent callers of one breaker (worker goroutines holding a call).
NCallers == 3
\* The clock stops at MaxTime; Reset is called at most MaxResets times.
MaxTime == 4
MaxResets == 1

\* The states in which Allow admits a call.
AdmitTags == {"closed", "half-open"}

\* The zero time.Time of a breaker that has not recorded a failure yet.
ZeroTime == -1

\* worker.Config.MaxRetries and worker.Config.BatchSize, set small.
MaxRetries == 2
BatchSize == 1
\* Rows the notifications table may hold; the store clock stops at MaxClock;
\* the operator status override is called at most MaxPatches times and the
\* workers poll at most MaxPolls times in all.
MaxNotifs == 3
MaxClock == 1
MaxPatches == 1
MaxPolls == 3

\* Worker replicas polling the same store, and RetryDeadLetter calls that
\* may be in flight at once.
Workers == {"w1", "w2"}
RetrySlots == {"a", "b"}

\* SQL NULL of a text column, and of next_retry_at / retried_notification_id.
NULL == "null"
NullTime == -1
NullId == 0

\* The HTTP status codes the handlers write.
StatusOK == 200
StatusCreated == 201
StatusBadRequest == 400
StatusConflict == 409
StatusInternalServerError == 500

\* Notification statuses (db.Status*) and DLQ statuses (db.DLQStatus*).
Statuses == {"pending", "processing", "sent", "failed", "dead_lettered"}
DLQStatuses == {"pending", "retried", "discarded"}

\* Copies of (tenant, user, channel, payload): d1 is an email, d2 an SMS.
Datas == {"d1", "d2"}

\* The senders main hands to NewMultiSender when the SNS sender could not be
\* created, each named by the channel it supports.
Senders == <<"email", "webhook">>

\* Routers built by NewMultiSender: at most MaxSenders senders, each one of
\* the package's implementations; the channels a notification may name.
MaxSenders == 3
SenderKinds == {"email", "sms", "webhook", "log"}
RouteChannels == {"email", "sms", "webhook", "push"}

\* Bodies of POST /v1/notifications: whether the body decodes as JSON, its
\* tenant_id and user_id ("": missing, "bad": not a UUID), its channel, and
\* whether its payload is valid JSON.  Every body with at most one defect.
BodyFields ==
    [json : BOOLEAN, tenant : {"", "bad", "t1"}, user : {"", "bad", "u1"},
     channel : {"", "push", "email", "sms"}, payload : BOOLEAN]
Defects(b) ==
    (IF b.json THEN 0 ELSE 1) + (IF b.tenant = "t1" THEN 0 ELSE 1)
      + (IF b.user = "u1" THEN 0 ELSE 1)
      + (IF b.channel \in {"email", "sms"} THEN 0 ELSE 1)
      + (IF b.payload THEN 0 ELSE 1)
Bodies == {b \in BodyFields : Defects(b) <= 1}

\* Tenant ids and idempotency keys handed to the IdempotencyService directly:
\* both are arbitrary strings and may hold the separator of buildKey (a
\* tenant id in its urn:uuid: form does).  Stored results name one of
\* MaxIdemIds notifications.
IdemTenants == {"a", "a:b", "b"}
IdemKeyNames == {"k", "b:k"}
MaxIdemIds == 2

\* Where a request to /v1 may name its tenant ("": not there), and the
\* addresses it may come from.
TenantNames == {"", "t1", "t2"}
RemoteAddrs == {"a1", "a2"}

\* Concurrent calls of ProtectedSender.Send and of RateLimiter.AllowN.
PSCalls == {"c1", "c2", "c3"}
RLSlots == {"q1", "q2", "q3"}

\* RateLimitConfig: Limit and Window (in clock ticks); the limiter's clock
\* stops at MaxRLTime.
Limit == 2
Window == 3
MaxRLTime == 3

\* Arguments of calculateNextRetry that are tried: attempts 1..MaxCalcAttempt
\* at the times 0..MaxCalcTime.
MaxCalcAttempt == 6
MaxCalcTime == 3

\* Acceptance requests (each slot is one HTTP request), tenants and
\* Idempotency-Key header values.
ReqSlots == {"r1", "r2", "r3"}
Tenants == {"t1", "t2"}
IdemKeys == {"k1"}

VARIABLES
    cb,            \* CircuitBreaker: state, failureCount, halfOpenRequests, lastFailureTime
    now,           \* wall clock (time.Now), in ticks
    calls,         \* admitted calls still in the inner sender, by admitting state
    resets,        \* number of Reset calls made so far
    \* history variables of the breaker (read by the properties only)
    lastOp,        \* the breaker operation of the last step and its outcome
    consec,        \* failures recorded since the last recorded success (or creation)
    consecR,       \* failures recorded since the last recorded success, Reset or creation
    hoAdmitted,    \* calls admitted since the breaker last entered half-open
    gLastFailure,  \* time of the last RecordFailure call
    openedFrom,    \* the state the breaker was in when it last moved to open
    \* the store (PostgreSQL) and the processes working on it
    notifs,        \* table notifications: row id |-> row (ids are handed out in order)
    dlq,           \* table dead_letter_notifications: row id |-> row
    clock,         \* the store's NOW(), in minutes
    workers,       \* per worker: position in processBatch and the rows it fetched
    retriers,      \* per RetryDeadLetter call in flight: position and the DLQ row it read
    polls,         \* number of worker polls (processBatch) made so far
    patches,       \* number of PATCH /v1/notifications/{id}/status calls made so far
    lastDlq,       \* history: the last DLQ API call and its outcome
    sendCalls,     \* history: notification id |-> calls of sender.Send made for it
    lastProc,      \* history: outcome of the last processNotification that ended
    \* the idempotency cache (Redis) and the acceptance requests using it
    cache,         \* Redis key |-> value: none, the processing marker or a stored result
    reqs,          \* per acceptance request: position in the handler, inputs, response
    cacheFault,    \* history, per Redis key: a cache call on it returned an error
    expired,       \* history, per Redis key: a value of it has expired
    \* a ProtectedSender with its own breaker, and the calls of its Send
    psBreaker,     \* the CircuitBreaker the ProtectedSender wraps
    psNow,         \* wall clock of the ProtectedSender, in ticks
    psCalls,       \* per Send call: position, inner-sender calls, outcomes reported
    \* the rate limiter (one Redis sorted set) and the calls of AllowN
    rlSet,         \* members of the sorted set ratelimit:<key>, scored by time
    rlNow,         \* wall clock of the limiter, in ticks
    rlReqs,        \* per AllowN call: position, the time it read, its result
    rlAdmits,      \* history: time |-> number of calls admitted with that time
    \* calls of Worker.calculateNextRetry
    retryCalc,     \* the last call: its attempt, the time it read, the time it returned
    retryDelays,   \* history: attempt |-> the delays returned for it so far
    \* calls of MultiSender.Send
    route,         \* the last call: the router's senders, the channel, what was invoked
    \* requests through RateLimitMiddleware as main builds it
    keyed,         \* the last request: where it names its tenant, its key, its answer
    \* the IdempotencyService called directly, by several tenants
    kv,            \* Redis: key string |-> value
    idemLast,      \* the last call: Reserve or Store, its tenant and idempotency key
    \* PATCH /v1/notifications/{id}/status with any body
    lastPatch,     \* the last request: the status and attempt it named, its status code
    \* POST /v1/notifications with any body
    lastReq        \* the last request that arrived: its slot and its body

cbVars == <<cb, now, calls, resets, lastOp, consec, consecR, hoAdmitted,
            gLastFailure, openedFrom>>

procHist == <<sendCalls, lastProc>>

storeVars == <<notifs, dlq, clock, workers, retriers, patches, polls, lastDlq,
               procHist>>

\* The store without the notifications table.
storeRest == <<dlq, clock, workers, retriers, patches, polls, lastDlq, procHist>>

acceptVars == <<cache, reqs, cacheFault, expired>>

psVars == <<psBreaker, psNow, psCalls>>

rlVars == <<rlSet, rlNow, rlReqs, rlAdmits>>

calcVars == <<retryCalc, retryDelays>>

\* The parts added to the model last, which no earlier part touches.
routeVars == <<route>>

keyVars == <<keyed>>

idemVars == <<kv, idemLast>>

patchVars == <<lastPatch>>

bodyVars == <<lastReq>>

otherVars == <<calcVars, routeVars, keyVars, idemVars, patchVars, bodyVars>>

\* What the store and the acceptance path never touch.
sideVars == <<cbVars, psVars, rlVars, otherVars>>

vars == <<cbVars, storeVars, acceptVars, psVars, rlVars, otherVars>>

(***************************************************************************)
(* Circuit breaker (internal/circuitbreaker/circuitbreaker.go).            *)
(* Every method runs under cb.mu, so each is one atomic step.              *)
(***************************************************************************)

\* New: closed, all counters zero, no failure recorded.
NewBreaker ==
    [state |-> "closed", failureCount |-> 0, halfOpenRequests |-> 0,
     lastFailureTime |-> ZeroTime]

\* transitionTo: a no-op when the state does not change, otherwise the new
\* state with halfOpenRequests cleared.
transitionTo(b, newState) ==
    IF b.state = newState
    THEN b
    ELSE [b EXCEPT !.state = newState, !.halfOpenRequests = 0]

\* Variant of RecoveryElapsed: the timeout must be exceeded, not reached.
RecoveryElapsed_Strict(b, t) ==
    \/ b.lastFailureTime = ZeroTime
    \/ t - b.lastFailureTime > RecoveryTimeout

\* time.Since(cb.lastFailureTime) >= cb.config.RecoveryTimeout
RecoveryElapsed(b, t) ==
    \/ b.lastFailureTime = ZeroTime
    \/ t - b.lastFailureTime >= RecoveryTimeout

\* Variant of AllowOn: the call that moves open to half-open is not counted
\* as a probe (halfOpenRequests stays at the 0 transitionTo left).
AllowOn_ProbeNotCounted(b, t) ==
    CASE b.state = "closed" -> [cb |-> b, ok |-> TRUE]
      [] b.state = "open" ->
            IF RecoveryElapsed(b, t)
            THEN [cb |-> transitionTo(b, "half-open"), ok |-> TRUE]
            ELSE [cb |-> b, ok |-> FALSE]
      [] b.state = "half-open" ->
            IF b.halfOpenRequests < HalfOpenMaxRequests
            THEN [cb |-> [b EXCEPT !.halfOpenRequests = @ + 1], ok |-> TRUE]
            ELSE [cb |-> b, ok |-> FALSE]

\* Allow: the breaker after the call and whether the call was admitted.
AllowOn(b, t) ==
    CASE b.state = "closed" -> [cb |-> b, ok |-> TRUE]
      [] b.state = "open" ->
            IF RecoveryElapsed(b, t)
            THEN [cb |-> [transitionTo(b, "half-open") EXCEPT !.halfOpenRequests = 1],
                  ok |-> TRUE]
            ELSE [cb |-> b, ok |-> FALSE]
      [] b.state = "half-open" ->
            IF b.halfOpenRequests < HalfOpenMaxRequests
            THEN [cb |-> [b EXCEPT !.halfOpenRequests = @ + 1], ok |-> TRUE]
            ELSE [cb |-> b, ok |-> FALSE]

\* Variant of RecordSuccessOn: any success closes the breaker, also in open.
RecordSuccessOn_ClosesFromOpen(b) ==
    transitionTo([b EXCEPT !.failureCount = 0], "closed")

\* RecordSuccess: failureCount cleared; half-open closes.
RecordSuccessOn(b) ==
    LET b1 == [b EXCEPT !.failureCount = 0]
    IN  IF b1.state = "half-open" THEN transitionTo(b1, "closed") ELSE b1

\* Variant of RecordFailureOn: closed opens only past the threshold.
RecordFailureOn_PastThreshold(b, t) ==
    LET b1 == [b EXCEPT !.failureCount = @ + 1, !.lastFailureTime = t]
    IN  CASE b1.state = "closed" ->
                IF b1.failureCount > MaxFailures
                THEN transitionTo(b1, "open")
                ELSE b1
          [] b1.state = "half-open" -> transitionTo(b1, "open")
          [] OTHER -> b1

\* Variant of RecordFailureOn: a failed probe reopens only at the threshold.
RecordFailureOn_ProbeNeedsThreshold(b, t) ==
    LET b1 == [b EXCEPT !.failureCount = @ + 1, !.lastFailureTime = t]
    IN  IF b1.state \in {"closed", "half-open"} /\ b1.failureCount >= MaxFailures
        THEN transitionTo(b1, "open")
        ELSE b1

\* RecordFailure: failureCount incremented, lastFailureTime set; closed opens
\* at the threshold, half-open reopens.
RecordFailureOn(b, t) ==
    LET b1 == [b EXCEPT !.failureCount = @ + 1, !.lastFailureTime = t]
    IN  CASE b1.state = "closed" ->
                IF b1.failureCount >= MaxFailures
                THEN transitionTo(b1, "open")
                ELSE b1
          [] b1.state = "half-open" -> transitionTo(b1, "open")
          [] OTHER -> b1

\* Reset: closed, counters cleared.
ResetOn(b) ==
    [transitionTo(b, "closed") EXCEPT !.failureCount = 0, !.halfOpenRequests = 0]

\* History bookkeeping shared by the breaker actions: the admissions of the
\* current half-open episode and the origin of the last move to open.
HistoryAfter(b, b2, admitted) ==
    /\ hoAdmitted' =
          IF b2.state = "half-open"
          THEN (IF b.state = "half-open" THEN hoAdmitted ELSE 0)
               + (IF admitted THEN 1 ELSE 0)
          ELSE 0
    /\ openedFrom' =
          IF b2.state = "open" /\ b.state # "open" THEN b.state ELSE openedFrom

\* ProtectedSender.Send, first half: p.breaker.Allow(); a rejected call
\* returns ErrCircuitOpen, an admitted one goes on to the inner sender.
\* calls counts the admitted calls still in the inner sender, by the state
\* the breaker was in when it admitted them.
Allow ==
    /\ calls["closed"] + calls["half-open"] < NCallers
    /\ LET r == AllowOn(cb, now)
       IN  /\ cb' = r.cb
           /\ calls' = IF r.ok
                       THEN [calls EXCEPT ![r.cb.state] = @ + 1]
                       ELSE calls
           /\ lastOp' = [op |-> "Allow", ok |-> r.ok, tag |-> r.cb.state,
                         from |-> cb.state]
           /\ HistoryAfter(cb, r.cb, r.ok)
    /\ UNCHANGED <<now, resets, consec, consecR, gLastFailure>>
    /\ UNCHANGED <<storeVars, acceptVars, psVars, rlVars, otherVars>>

\* ProtectedSender.Send, second half: the inner sender returned nil.
RecordSuccess(tag) ==
    /\ calls[tag] > 0
    /\ cb' = RecordSuccessOn(cb)
    /\ calls' = [calls EXCEPT ![tag] = @ - 1]
    /\ lastOp' = [op |-> "RecordSuccess", ok |-> TRUE, tag |-> tag,
                  from |-> cb.state]
    /\ consec' = 0
    /\ consecR' = 0
    /\ HistoryAfter(cb, cb', FALSE)
    /\ UNCHANGED <<now, resets, gLastFailure>>
    /\ UNCHANGED <<storeVars, acceptVars, psVars, rlVars, otherVars>>

\* ProtectedSender.Send, second half: the inner sender returned an error.
RecordFailure(tag) ==
    /\ calls[tag] > 0
    /\ cb' = RecordFailureOn(cb, now)
    /\ calls' = [calls EXCEPT ![tag] = @ - 1]
    /\ lastOp' = [op |-> "RecordFailure", ok |-> FALSE, tag |-> tag,
                  from |-> cb.state]
    /\ consec' = consec + 1
    /\ consecR' = consecR + 1
    /\ gLastFailure' = now
    /\ HistoryAfter(cb, cb', FALSE)
    /\ UNCHANGED <<now, resets>>
    /\ UNCHANGED <<storeVars, acceptVars, psVars, rlVars, otherVars>>

\* Operator override.
Reset ==
    /\ resets < MaxResets
    /\ resets' = resets + 1
    /\ cb' = ResetOn(cb)
    /\ lastOp' = [op |-> "Reset", ok |-> TRUE, tag |-> "none", from |-> cb.state]
    /\ consecR' = 0
    /\ HistoryAfter(cb, cb', FALSE)
    /\ UNCHANGED <<now, calls, consec, gLastFailure>>
    /\ UNCHANGED <<storeVars, acceptVars, psVars, rlVars, otherVars>>

\* The clock advances.
Tick ==
    /\ now < MaxTime
    /\ now' = now + 1
    /\ lastOp' = [op |-> "Tick", ok |-> TRUE, tag |-> "none", from |-> cb.state]
    /\ UNCHANGED <<cb, calls, resets, consec, consecR, hoAdmitted,
                   gLastFailure, openedFrom>>
    /\ UNCHANGED <<storeVars, acceptVars, psVars, rlVars, otherVars>>


(***************************************************************************)
(* Store (internal/db/repository.go).  Each SQL statement, and each        *)
(* transaction at its commit, is one atomic step.                          *)
(***************************************************************************)

\* A row as CreateNotification / RetryDeadLetter insert it; `via` and `by`
\* record where the row came from: the DLQ row it was retried from, or the
\* acceptance request that persisted it.
NewNotification(data, fromDlq, byReq) ==
    [status |-> "pending", attempt |-> 0, err |-> NULL, next |-> NullTime,
     data |-> data, via |-> fromDlq, by |-> byReq]

\* INSERT INTO notifications: the new row gets the next fresh id.
CreateNotification(ns, n) == Append(ns, n)

\* UPDATE notifications SET status, attempt, error_message, next_retry_at
\* WHERE id = $5
UpdateNotificationStatus(ns, id, status, attempt, errorMsg, nextRetryAt) ==
    [ns EXCEPT ![id] = [@ EXCEPT !.status = status, !.attempt = attempt,
                                 !.err = errorMsg, !.next = nextRetryAt]]

\* WHERE status = 'pending' AND (next_retry_at IS NULL OR next_retry_at <= NOW())
IsDue(n, t) == n.status = "pending" /\ (n.next = NullTime \/ n.next <= t)

\* The first `limit` elements of a sequence.
Take(seq, limit) == SubSeq(seq, 1, IF Len(seq) < limit THEN Len(seq) ELSE limit)

\* GetPendingNotifications: the due rows, oldest first, at most `limit`.
GetPendingNotifications(ns, t, limit) ==
    Take(SelectSeq([i \in 1..Len(ns) |-> i], LAMBDA i : IsDue(ns[i], t)), limit)

\* The *db.Notification a worker holds for a fetched row.
Fetched(ns, id) ==
    [id |-> id, attempt |-> ns[id].attempt, next |-> ns[id].next, data |-> ns[id].data]

\* MoveToDeadLetter, committed: the DLQ row copied from the worker's
\* notification, and the notification's status set to dead_lettered.
MoveToDeadLetter_KeepsStatus(ns, dq, notif, lastError) ==
    [dlq |-> Append(dq, [orig |-> notif.id, data |-> notif.data,
                         attempts |-> notif.attempt, lastError |-> lastError,
                         status |-> "pending", retried |-> NullId, retryOK |-> 0]),
     notifs |-> ns]
MoveToDeadLetter(ns, dq, notif, lastError) ==
    [dlq |-> Append(dq, [orig |-> notif.id, data |-> notif.data,
                         attempts |-> notif.attempt, lastError |-> lastError,
                         status |-> "pending", retried |-> NullId, retryOK |-> 0]),
     notifs |-> [ns EXCEPT ![notif.id].status = "dead_lettered"]]

\* RetryDeadLetter, the transaction: a fresh pending notification copied from
\* the DLQ row, and the DLQ row set to retried pointing at it.
RetryDeadLetterTx_ResumesAttempt(ns, dq, d) ==
    [notifs |-> CreateNotification(ns,
                   [NewNotification(dq[d].data, d, "none") EXCEPT
                       !.attempt = dq[d].attempts]),
     dlq |-> [dq EXCEPT ![d] = [@ EXCEPT !.status = "retried",
                                        !.retried = Len(ns) + 1,
                                        !.retryOK = @ + 1]]]
RetryDeadLetterTx(ns, dq, d) ==
    [notifs |-> CreateNotification(ns, NewNotification(dq[d].data, d, "none")),
     dlq |-> [dq EXCEPT ![d] = [@ EXCEPT !.status = "retried",
                                        !.retried = Len(ns) + 1,
                                        !.retryOK = @ + 1]]]

\* DiscardDeadLetter: UPDATE ... SET status = discarded WHERE id AND status = pending
DiscardDeadLetterOn_Unconditional(dq, d) == [dq EXCEPT ![d].status = "discarded"]
DiscardDeadLetterOn(dq, d) ==
    IF dq[d].status = "pending"
    THEN [dq EXCEPT ![d].status = "discarded"]
    ELSE dq

(***************************************************************************)
(* Worker (internal/worker: processBatch, processNotification).            *)
(***************************************************************************)

\* calculateNextRetry: now plus 1, 5 or 15 minutes by attempt number.
Delays == <<1, 5, 15>>
calculateNextRetry_Immediate(attempt, t) == t
calculateNextRetry_ClampsShort(attempt, t) ==
    LET idx == IF attempt - 1 >= Len(Delays) THEN Len(Delays) - 2 ELSE attempt - 1
    IN  t + Delays[idx + 1]
calculateNextRetry(attempt, t) ==
    LET idx == IF attempt - 1 >= Len(Delays) THEN Len(Delays) - 1 ELSE attempt - 1
    IN  t + Delays[idx + 1]

\* The notification a worker is processing, and the worker once it is done
\* with it.
Current(w) == Head(workers[w].batch)
Advance(w) ==
    LET rest == Tail(workers[w].batch)
    IN  [workers EXCEPT ![w] = [pc |-> IF rest = <<>> THEN "idle" ELSE "mark",
                                batch |-> rest]]

\* processBatch: fetch the due rows; an empty result ends the tick.
Fetch(w) ==
    /\ workers[w].pc = "idle"
    /\ LET ids == GetPendingNotifications(notifs, clock, BatchSize)
       IN  /\ ids # <<>>
           /\ workers' = [workers EXCEPT ![w] =
                            [pc |-> "mark",
                             batch |-> [k \in 1..Len(ids) |-> Fetched(notifs, ids[k])]]]
    /\ UNCHANGED <<notifs, dlq, clock, retriers, patches, lastDlq>>
    /\ UNCHANGED procHist
    /\ UNCHANGED <<sideVars, acceptVars>>

\* processBatch as the ticker of Start calls it, at most MaxPolls times.
processBatch(w) ==
    /\ polls < MaxPolls
    /\ polls' = polls + 1
    /\ Fetch(w)

\* processNotification, first statement: mark the row processing with the
\* fetched attempt and next_retry_at; the error of the update is dropped.
MarkProcessing(w) ==
    /\ workers[w].pc = "mark"
    /\ \E dbOk \in BOOLEAN :
          notifs' = IF dbOk
                    THEN UpdateNotificationStatus(notifs, Current(w).id, "processing",
                                                  Current(w).attempt, NULL, Current(w).next)
                    ELSE notifs
    /\ workers' = [workers EXCEPT ![w].pc = "send"]
    /\ UNCHANGED <<dlq, clock, retriers, patches, polls, lastDlq>>
    /\ UNCHANGED procHist
    /\ UNCHANGED <<sideVars, acceptVars>>

\* notif.Channel of a fetched notification.
Channel(data) == IF data = "d1" THEN "email" ELSE "sms"

\* sender.SupportsChannel(channel): the SES, SNS and webhook senders support
\* the channel they are named by, the LogSender all three.
SupportsChannel(sender, channel) ==
    IF sender = "log" THEN channel \in {"email", "sms", "webhook"}
    ELSE sender = channel

\* MultiSender.Send: the index of the first sender that supports the
\* channel, 0 when there is none and Send returns "no sender found".
RouteTo(senders, channel) ==
    LET S == {k \in DOMAIN senders : SupportsChannel(senders[k], channel)}
    IN  IF S = {} THEN 0 ELSE CHOOSE k \in S : \A j \in S : k <= j

\* err.Error() of a failed Send.
errMsg(notif) ==
    IF RouteTo(Senders, Channel(notif.data)) = 0
    THEN "no sender found for channel"
    ELSE "send failed"

\* newAttempt := notif.Attempt + 1
newAttempt_Unchanged(notif) == notif.attempt
newAttempt(notif) == notif.attempt + 1

\* The history of a processNotification that called the sender and ended.
Processed(w, outcome, wrote) ==
    /\ sendCalls' = [sendCalls EXCEPT ![Current(w).id] = @ + 1]
    /\ lastProc' = [outcome |-> outcome, wrote |-> wrote]

\* processNotification, the send succeeded (a sender supports the channel and
\* returned nil): status sent, attempt + 1.
SendOk(w) ==
    /\ workers[w].pc = "send"
    /\ RouteTo(Senders, Channel(Current(w).data)) # 0
    /\ \E dbOk \in BOOLEAN :
          /\ notifs' = IF dbOk
                       THEN UpdateNotificationStatus(notifs, Current(w).id, "sent",
                                                     newAttempt(Current(w)), NULL, NullTime)
                       ELSE notifs
          /\ Processed(w, "sent", dbOk)
    /\ workers' = Advance(w)
    /\ UNCHANGED <<dlq, clock, retriers, patches, polls, lastDlq>>
    /\ UNCHANGED <<sideVars, acceptVars>>

\* processNotification, the send failed (in the sender, or for want of a
\* sender) below MaxRetries: back to pending
\* with the error and the next retry time.
SendFailRetry(w) ==
    /\ workers[w].pc = "send"
    /\ newAttempt(Current(w)) < MaxRetries
    /\ \E dbOk \in BOOLEAN :
          /\ notifs' = IF dbOk
                       THEN UpdateNotificationStatus(notifs, Current(w).id, "pending",
                                newAttempt(Current(w)), errMsg(Current(w)),
                                calculateNextRetry(newAttempt(Current(w)), clock))
                       ELSE notifs
          /\ Processed(w, "retry", dbOk)
    /\ workers' = Advance(w)
    /\ UNCHANGED <<dlq, clock, retriers, patches, polls, lastDlq>>
    /\ UNCHANGED <<sideVars, acceptVars>>

\* The statements of MoveToDeadLetter that can return an error.
TxSteps == {"begin", "insert", "update", "commit"}

\* MoveToDeadLetter when the statement failAt fails ("none": no failure):
\* the deferred tx.Rollback undoes what the transaction did; a failed commit
\* leaves the transaction applied as a whole or not at all.
MoveToDeadLetterTx_NoRollback(ns, dq, notif, lastError, failAt, applied) ==
    LET r == MoveToDeadLetter(ns, dq, notif, lastError)
    IN  IF failAt = "begin" THEN [dlq |-> dq, notifs |-> ns]
        ELSE IF failAt = "insert" THEN [dlq |-> dq, notifs |-> ns]
        ELSE IF failAt = "update" THEN [dlq |-> r.dlq, notifs |-> ns]
        ELSE r
MoveToDeadLetterTx(ns, dq, notif, lastError, failAt, applied) ==
    IF failAt = "none" \/ (failAt = "commit" /\ applied)
    THEN MoveToDeadLetter(ns, dq, notif, lastError)
    ELSE [dlq |-> dq, notifs |-> ns]

\* processNotification, the send failed at MaxRetries: MoveToDeadLetter; a
\* failed transaction is only logged.
SendFailDeadLetter(w) ==
    /\ workers[w].pc = "send"
    /\ newAttempt(Current(w)) >= MaxRetries
    /\ \E failAt \in TxSteps \cup {"none"}, applied \in BOOLEAN :
          LET r == MoveToDeadLetterTx(notifs, dlq, Current(w), errMsg(Current(w)),
                                      failAt, applied)
          IN  /\ notifs' = r.notifs
              /\ dlq' = r.dlq
              /\ Processed(w, "dead_letter", failAt = "none")
    /\ workers' = Advance(w)
    /\ UNCHANGED <<clock, retriers, patches, polls, lastDlq>>
    /\ UNCHANGED <<sideVars, acceptVars>>

(***************************************************************************)
(* API handlers working on the store (internal/api/handler.go).            *)
(***************************************************************************)

\* POST /v1/notifications without an Idempotency-Key: one INSERT.
AcceptNoKey(data) ==
    /\ Len(notifs) < MaxNotifs
    /\ notifs' = CreateNotification(notifs, NewNotification(data, NullId, "none"))
    /\ UNCHANGED <<dlq, clock, workers, retriers, patches, polls, lastDlq>>
    /\ UNCHANGED procHist
    /\ UNCHANGED <<sideVars, acceptVars>>

\* The statuses and attempts PATCH /v1/notifications/{id}/status accepts
\* (attempt >= 0; two representatives).
ValidStatuses == {"pending", "processing", "sent", "failed"}
PatchAttempts == {0, MaxRetries + 1}
PatchErrors == {NULL, "operator"}

\* PATCH /v1/notifications/{id}/status with a valid body: one UPDATE, with
\* next_retry_at nil.
HandlerUpdateNotificationStatus(id, status, attempt, errorMsg) ==
    /\ patches < MaxPatches
    /\ patches' = patches + 1
    /\ notifs' = UpdateNotificationStatus(notifs, id, status, attempt, errorMsg, NullTime)
    /\ UNCHANGED <<dlq, clock, workers, retriers, polls, lastDlq>>
    /\ UNCHANGED procHist
    /\ UNCHANGED <<sideVars, acceptVars>>

\* The target statuses and attempts a PATCH body may name.
PatchStatuses == ValidStatuses \cup {"dead_lettered", "discarded", ""}
PatchAnyAttempts == {-1, 0, MaxRetries + 1}

NoPatch == [status |-> "none", attempt |-> 0, code |-> 0]

\* The checks of UpdateNotificationStatus on a decoded body: the status code
\* of the rejection, 0 when the body passes.
ValidatePatch_AllowsAnyStatus(status, attempt) ==
    IF attempt < 0 THEN StatusBadRequest ELSE 0
ValidatePatch(status, attempt) ==
    IF status \notin ValidStatuses THEN StatusBadRequest
    ELSE IF attempt < 0 THEN StatusBadRequest
    ELSE 0

\* PATCH /v1/notifications/{id}/status with any decodable body, for a stored
\* notification: a rejected body is answered 400 before the repository is
\* called; any other is written with one UPDATE (next_retry_at nil), which
\* may fail.
PatchRequest(id, status, attempt, errorMsg) ==
    /\ UNCHANGED <<dlq, clock, workers, retriers, polls, lastDlq>>
    /\ UNCHANGED procHist
    /\ UNCHANGED <<acceptVars, cbVars, psVars, rlVars>>
    /\ UNCHANGED <<calcVars, routeVars, keyVars, idemVars, bodyVars>>
    /\ LET rejected == ValidatePatch(status, attempt)
       IN  IF rejected # 0
           THEN /\ lastPatch' = [status |-> status, attempt |-> attempt,
                                 code |-> rejected]
                /\ UNCHANGED <<notifs, patches>>
           ELSE /\ patches < MaxPatches
                /\ patches' = patches + 1
                /\ \E dbOk \in BOOLEAN :
                      /\ notifs' = IF dbOk
                                   THEN UpdateNotificationStatus(notifs, id, status,
                                            attempt, errorMsg, NullTime)
                                   ELSE notifs
                      /\ lastPatch' = [status |-> status, attempt |-> attempt,
                                       code |-> IF dbOk THEN StatusOK
                                                ELSE StatusInternalServerError]

\* RetryDeadLetterItem and DiscardDeadLetterItem: the status code written
\* for what the repository returned (nil, or any error).
DlqStatusCode(ok) == IF ok THEN 200 ELSE StatusInternalServerError

\* POST /v1/dlq/{id}/retry or /discard with an id no DLQ row has:
\* GetDeadLetter finds no row, the UPDATE of DiscardDeadLetter affects none.
DlqCallUnknown(op) ==
    /\ lastDlq' = [op |-> op, d |-> Len(dlq) + 1, ok |-> FALSE,
                   before |-> "unknown", code |-> DlqStatusCode(FALSE)]
    /\ UNCHANGED <<notifs, dlq, clock, workers, retriers, patches, polls>>
    /\ UNCHANGED procHist
    /\ UNCHANGED <<sideVars, acceptVars>>

\* POST /v1/dlq/{id}/retry, first half of RetryDeadLetter: GetDeadLetter and
\* the test of its status; a row that is not pending ends the call with an
\* error.
RetryDeadLetterGet(s, d) ==
    /\ retriers[s].pc = "idle"
    /\ IF dlq[d].status # "pending"
       THEN /\ lastDlq' = [op |-> "retry", d |-> d, ok |-> FALSE,
                           before |-> dlq[d].status,
                           code |-> DlqStatusCode(FALSE)]
            /\ UNCHANGED retriers
       ELSE /\ retriers' = [retriers EXCEPT ![s] = [pc |-> "tx", d |-> d]]
            /\ UNCHANGED lastDlq
    /\ UNCHANGED <<notifs, dlq, clock, workers, patches, polls>>
    /\ UNCHANGED procHist
    /\ UNCHANGED <<sideVars, acceptVars>>

\* Second half of RetryDeadLetter: the transaction commits (or fails and is
\* rolled back).
RetryDeadLetterCommit(s) ==
    /\ retriers[s].pc = "tx"
    /\ \E dbOk \in BOOLEAN :
          LET d == retriers[s].d
              r == RetryDeadLetterTx(notifs, dlq, d)
          IN  /\ dbOk => Len(notifs) < MaxNotifs
              /\ notifs' = IF dbOk THEN r.notifs ELSE notifs
              /\ dlq' = IF dbOk THEN r.dlq ELSE dlq
              /\ lastDlq' = [op |-> "retry", d |-> d, ok |-> dbOk,
                             before |-> dlq[d].status,
                             code |-> DlqStatusCode(dbOk)]
    /\ retriers' = [retriers EXCEPT ![s] = [pc |-> "idle", d |-> NullId]]
    /\ UNCHANGED <<clock, workers, patches, polls>>
    /\ UNCHANGED procHist
    /\ UNCHANGED <<sideVars, acceptVars>>

\* POST /v1/dlq/{id}/discard: the conditional UPDATE; no row affected is an
\* error.
DiscardDeadLetter(d) ==
    /\ dlq' = DiscardDeadLetterOn(dlq, d)
    /\ lastDlq' = [op |-> "discard", d |-> d, ok |-> dlq[d].status = "pending",
                   before |-> dlq[d].status,
                   code |-> DlqStatusCode(dlq[d].status = "pending")]
    /\ UNCHANGED <<notifs, clock, workers, retriers, patches, polls>>
    /\ UNCHANGED procHist
    /\ UNCHANGED <<sideVars, acceptVars>>

\* NOW() advances.
ClockTick ==
    /\ clock < MaxClock
    /\ clock' = clock + 1
    /\ UNCHANGED <<notifs, dlq, workers, retriers, patches, polls, lastDlq>>
    /\ UNCHANGED procHist
    /\ UNCHANGED <<sideVars, acceptVars>>

(***************************************************************************)
(* Idempotent acceptance (internal/redis/idempotency.go and                *)
(* Handler.CreateNotification).                                            *)
(***************************************************************************)

\* buildKey: fmt.Sprintf("idempotency:%s:%s", tenantID, idempotencyKey).
buildKey_IgnoresTenant(tenantID, idempotencyKey) == "idempotency:" \o idempotencyKey
buildKey(tenantID, idempotencyKey) ==
    "idempotency:" \o tenantID \o ":" \o idempotencyKey
CacheKeys == {buildKey(t, k) : t \in Tenants, k \in IdemKeys}

\* Values of a Redis key: absent, processingMarker, or a marshalled
\* IdempotencyResult (NotificationID, StatusCode).
Absent == [kind |-> "none", id |-> NullId, code |-> 0]
processingMarker == [kind |-> "processing", id |-> NullId, code |-> 0]
IdempotencyResult(id, code) == [kind |-> "result", id |-> id, code |-> code]


\* Check with a successful GET: what the caller learns about the key.
Check_MissesStored(c, ck) == IF c[ck].kind = "result" THEN Absent ELSE c[ck]
Check(c, ck) == c[ck]

\* Reserve with a successful SETNX: the marker is set iff the key is absent.
Reserve_Overwrites(c, ck) == [cache |-> [c EXCEPT ![ck] = processingMarker], set |-> TRUE]
Reserve(c, ck) ==
    IF c[ck].kind = "none"
    THEN [cache |-> [c EXCEPT ![ck] = processingMarker], set |-> TRUE]
    ELSE [cache |-> c, set |-> FALSE]

\* Store with a successful SET: the result replaces whatever the key holds.
Store_Clears(c, ck, result) == [c EXCEPT ![ck] = Absent]
Store(c, ck, result) == [c EXCEPT ![ck] = result]

NoResponse == [kind |-> "none", id |-> NullId, code |-> 0]
IdleRequest ==
    [pc |-> "idle", ck |-> buildKey("t1", "k1"), data |-> "d1", after |-> NullId,
     id |-> NullId, fault |-> FALSE, resp |-> NoResponse]

InFlight(r) == reqs[r].pc \notin {"idle", "done"}
Respond(r, kind, id, code) ==
    [reqs EXCEPT ![r] = [@ EXCEPT !.pc = "done",
                                  !.resp = [kind |-> kind, id |-> id, code |-> code]]]

\* CheckOrReserve returned an error that is not ErrDuplicateRequest, or Store
\* returned an error: the handler logs it and goes on.  `fault` records that
\* a cache call of the request failed.
ProceedOnError_FailsClosed(rq, pc) ==
    [rq EXCEPT !.pc = "done", !.fault = TRUE,
               !.resp = [kind |-> "cache_error", id |-> NullId,
                         code |-> StatusInternalServerError]]
ProceedOnError(rq, pc) == [rq EXCEPT !.pc = pc, !.fault = TRUE]

\* A valid POST /v1/notifications carrying an Idempotency-Key arrives.
\* `after` records the outcome stored for its key at that moment, if any.
AcceptStart(r, tenantID, idempotencyKey, data) ==
    /\ reqs[r].pc = "idle"
    /\ LET ck == buildKey(tenantID, idempotencyKey)
       IN  reqs' = [reqs EXCEPT ![r] =
                      [@ EXCEPT !.pc = "check", !.ck = ck, !.data = data,
                                !.after = IF cache[ck].kind = "result"
                                          THEN cache[ck].id ELSE NullId]]
    /\ UNCHANGED <<notifs, storeRest, cache, cacheFault, expired>>
    /\ UNCHANGED sideVars

\* CheckOrReserve, the Check half: a GET error makes the handler proceed
\* without idempotency; the marker answers 409; a stored result is replayed
\* with its status code; an absent key goes on to Reserve.
AcceptCheck(r) ==
    /\ reqs[r].pc = "check"
    /\ \E getOk \in BOOLEAN :
          LET ck == reqs[r].ck
              val == Check(cache, ck)
          IN  /\ cacheFault' = IF getOk THEN cacheFault
                               ELSE [cacheFault EXCEPT ![ck] = TRUE]
              /\ reqs' =
                   IF ~getOk
                   THEN [reqs EXCEPT ![r] = ProceedOnError(reqs[r], "persist")]
                   ELSE IF val.kind = "processing"
                        THEN Respond(r, "conflict", NullId, StatusConflict)
                   ELSE IF val.kind = "result"
                        THEN Respond(r, "replayed", val.id, val.code)
                   ELSE [reqs EXCEPT ![r].pc = "reserve"]
    /\ UNCHANGED <<notifs, storeRest, cache, expired>>
    /\ UNCHANGED sideVars

\* CheckOrReserve, the Reserve half: a SETNX error makes the handler proceed;
\* a lost reservation answers 409.
AcceptReserve(r) ==
    /\ reqs[r].pc = "reserve"
    /\ \E setOk \in BOOLEAN :
          LET ck == reqs[r].ck
              res == Reserve(cache, ck)
          IN  /\ cacheFault' = IF setOk THEN cacheFault
                               ELSE [cacheFault EXCEPT ![ck] = TRUE]
              /\ cache' = IF setOk THEN res.cache ELSE cache
              /\ reqs' =
                   IF ~setOk
                   THEN [reqs EXCEPT ![r] = ProceedOnError(reqs[r], "persist")]
                   ELSE IF res.set THEN [reqs EXCEPT ![r].pc = "persist"]
                   ELSE Respond(r, "conflict", NullId, StatusConflict)
    /\ UNCHANGED <<notifs, storeRest, expired>>
    /\ UNCHANGED sideVars

\* repo.CreateNotification: the row is inserted, or the insert fails and the
\* handler answers 500.
AcceptPersist(r) ==
    /\ reqs[r].pc = "persist"
    /\ \E dbOk \in BOOLEAN :
          /\ dbOk => Len(notifs) < MaxNotifs
          /\ notifs' = IF dbOk
                       THEN CreateNotification(notifs,
                                NewNotification(reqs[r].data, NullId, r))
                       ELSE notifs
          /\ reqs' = IF dbOk
                     THEN [reqs EXCEPT ![r] = [@ EXCEPT !.pc = "store",
                                                        !.id = Len(notifs) + 1]]
                     ELSE Respond(r, "db_error", NullId, StatusInternalServerError)
    /\ UNCHANGED <<storeRest, cache, cacheFault, expired>>
    /\ UNCHANGED sideVars

\* The rest of the handler: idempotency.Store (an error is only logged),
\* the enqueue (an error answers 500), and the 201 response.
AcceptStore(r) ==
    /\ reqs[r].pc = "store"
    /\ \E setOk \in BOOLEAN, enqOk \in BOOLEAN :
          LET ck == reqs[r].ck
              rq == IF setOk THEN reqs[r] ELSE ProceedOnError(reqs[r], "store")
              answered(kind, id, code) ==
                 [reqs EXCEPT ![r] =
                    [rq EXCEPT !.pc = "done",
                               !.resp = [kind |-> kind, id |-> id, code |-> code]]]
          IN  /\ cache' = IF setOk
                          THEN Store(cache, ck,
                                     IdempotencyResult(reqs[r].id, StatusCreated))
                          ELSE cache
              /\ cacheFault' = IF setOk THEN cacheFault
                               ELSE [cacheFault EXCEPT ![ck] = TRUE]
              /\ reqs' = IF rq.pc = "done" THEN [reqs EXCEPT ![r] = rq]
                         ELSE IF enqOk
                         THEN answered("created", reqs[r].id, StatusCreated)
                         ELSE answered("enqueue_error", NullId,
                                       StatusInternalServerError)
    /\ UNCHANGED <<notifs, storeRest, expired>>
    /\ UNCHANGED sideVars

\* The checks of CreateNotification on the request body, in their order: the
\* title of the rejection, "ok" when the body passes.
Validate_AnyChannel(b) ==
    IF ~b.json THEN "Malformed JSON body"
    ELSE IF b.tenant = "" \/ b.user = "" \/ b.channel = "" THEN "Missing required fields"
    ELSE IF ~b.payload THEN "Invalid payload"
    ELSE IF b.tenant = "bad" THEN "Invalid tenant_id"
    ELSE IF b.user = "bad" THEN "Invalid user_id"
    ELSE "ok"
Validate(b) ==
    IF ~b.json THEN "Malformed JSON body"
    ELSE IF b.tenant = "" \/ b.user = "" \/ b.channel = "" THEN "Missing required fields"
    ELSE IF b.channel \notin {"email", "sms", "webhook"} THEN "Invalid channel"
    ELSE IF ~b.payload THEN "Invalid payload"
    ELSE IF b.tenant = "bad" THEN "Invalid tenant_id"
    ELSE IF b.user = "bad" THEN "Invalid user_id"
    ELSE "ok"

NoRequest == [r |-> "none", body |-> [json |-> TRUE, tenant |-> "", user |-> "",
                                      channel |-> "", payload |-> TRUE]]

\* POST /v1/notifications with the Idempotency-Key k1 and any body arrives:
\* a body that fails a check is answered 400 there and then; any other goes
\* on to CheckOrReserve under its tenant.
CreateNotificationArrives(r, b) ==
    /\ reqs[r].pc = "idle"
    /\ lastReq' = [r |-> r, body |-> b]
    /\ LET title == Validate(b)
           ck == buildKey(b.tenant, "k1")
       IN  reqs' = IF title # "ok"
                   THEN Respond(r, title, NullId, StatusBadRequest)
                   ELSE [reqs EXCEPT ![r] =
                           [@ EXCEPT !.pc = "check", !.ck = ck,
                                     !.data = IF b.channel = "email" THEN "d1" ELSE "d2",
                                     !.after = IF cache[ck].kind = "result"
                                               THEN cache[ck].id ELSE NullId]]
    /\ UNCHANGED <<notifs, storeRest, cache, cacheFault, expired>>
    /\ UNCHANGED <<cbVars, psVars, rlVars>>
    /\ UNCHANGED <<calcVars, routeVars, keyVars, idemVars, patchVars>>

\* The handler stops between CheckOrReserve and its response (its process
\* dies, or it panics): no statement releases the key, nothing is answered.
AcceptCrash(r) ==
    /\ reqs[r].pc \in {"persist", "store"}
    /\ reqs' = Respond(r, "crashed", NullId, 0)
    /\ UNCHANGED <<notifs, storeRest, cache, cacheFault, expired>>
    /\ UNCHANGED sideVars

\* A key's TTL runs out (processingTTL 5 min, result TTL 5 min or 24 h).
\* Both exceed the 30 s request timeout, so no key set or read by a request
\* expires while that request is still running.
Expire_KeepsMarker(ck) ==
    /\ cache[ck].kind = "result"
    /\ \A r \in ReqSlots : InFlight(r) => reqs[r].ck # ck
    /\ cache' = [cache EXCEPT ![ck] = Absent]
    /\ expired' = [expired EXCEPT ![ck] = TRUE]
    /\ UNCHANGED <<notifs, storeRest, reqs, cacheFault>>
    /\ UNCHANGED sideVars
Expire(ck) ==
    /\ cache[ck].kind # "none"
    /\ \A r \in ReqSlots : InFlight(r) => reqs[r].ck # ck
    /\ cache' = [cache EXCEPT ![ck] = Absent]
    /\ expired' = [expired EXCEPT ![ck] = TRUE]
    /\ UNCHANGED <<notifs, storeRest, reqs, cacheFault>>
    /\ UNCHANGED sideVars

(***************************************************************************)
(* ProtectedSender.Send (circuitbreaker package).                          *)
(***************************************************************************)

\* `if !p.breaker.Allow() { return ErrCircuitOpen }`: where Send goes after
\* Allow answered.
AfterAllow_IgnoresDenial(ok) == "send"
AfterAllow(ok) == IF ok THEN "send" ELSE "done"

IdleCall ==
    [pc |-> "idle", admitted |-> FALSE, invoked |-> 0, inner |-> "none",
     successes |-> 0, failures |-> 0, ret |-> "none"]

\* p.breaker.Allow(): a denied call returns ErrCircuitOpen at once.
PSAllow(c) ==
    /\ psCalls[c].pc = "idle"
    /\ LET r == AllowOn(psBreaker, psNow)
       IN  /\ psBreaker' = r.cb
           /\ psCalls' = [psCalls EXCEPT ![c] =
                 [@ EXCEPT !.pc = AfterAllow(r.ok), !.admitted = r.ok,
                           !.ret = IF r.ok THEN "none" ELSE "circuit-open"]]
    /\ UNCHANGED <<psNow, cbVars, storeVars, acceptVars, rlVars, otherVars>>

\* p.sender.Send(ctx, notif): the inner sender is called and returns nil or
\* an error.
PSInnerSend(c) ==
    /\ psCalls[c].pc = "send"
    /\ \E err \in {"nil", "err"} :
          psCalls' = [psCalls EXCEPT ![c] =
             [@ EXCEPT !.pc = "record", !.invoked = @ + 1, !.inner = err]]
    /\ UNCHANGED <<psBreaker, psNow, cbVars, storeVars, acceptVars, rlVars, otherVars>>

\* RecordFailure and return err, or RecordSuccess and return nil.
PSRecord(c) ==
    /\ psCalls[c].pc = "record"
    /\ psBreaker' = IF psCalls[c].inner = "err"
                    THEN RecordFailureOn(psBreaker, psNow)
                    ELSE RecordSuccessOn(psBreaker)
    /\ psCalls' = [psCalls EXCEPT ![c] =
          [@ EXCEPT !.pc = "done",
                    !.successes = IF psCalls[c].inner = "nil" THEN @ + 1 ELSE @,
                    !.failures = IF psCalls[c].inner = "err" THEN @ + 1 ELSE @,
                    !.ret = psCalls[c].inner]]
    /\ UNCHANGED <<psNow, cbVars, storeVars, acceptVars, rlVars, otherVars>>

\* The caller is done with the result; the slot is free for the next call.
PSNext(c) ==
    /\ psCalls[c].pc = "done"
    /\ psCalls' = [psCalls EXCEPT ![c] = IdleCall]
    /\ UNCHANGED <<psBreaker, psNow, cbVars, storeVars, acceptVars, rlVars, otherVars>>

PSTick ==
    /\ psNow < MaxTime
    /\ psNow' = psNow + 1
    /\ UNCHANGED <<psBreaker, psCalls, cbVars, storeVars, acceptVars, rlVars, otherVars>>

InitPS ==
    /\ psBreaker = NewBreaker
    /\ psNow = 0
    /\ psCalls = [c \in PSCalls |-> IdleCall]

(***************************************************************************)
(* RateLimiter.AllowN with n = 1 (internal/redis ratelimit).               *)
(***************************************************************************)

\* ZREMRANGEBYSCORE key 0 windowStart: members scored at or before
\* now - Window are removed.
Prune(zset, t) == {m \in zset : m.score > t - Window}

\* The member AllowN adds: "<now>-0" with score now.
Member(t) == [member |-> <<t, 0>>, score |-> t]

\* ZADD: a member already in the set is not added twice.
ZAdd(zset, m) == {x \in zset : x.member # m.member} \cup {m}

\* RateLimitMiddleware once limiter.Allow has returned (or with no limiter):
\* the request goes to the next handler, or is answered 429.
RateLimitMiddleware_FailsClosed(limiter, result) ==
    IF limiter = "nil" THEN "next"
    ELSE IF result = "allowed" THEN "next" ELSE "429"
RateLimitMiddleware(limiter, result) ==
    IF limiter = "nil" THEN "next"
    ELSE IF result = "error" THEN "next"
    ELSE IF result = "rejected" THEN "429"
    ELSE "next"

\* A request in the middleware and what became of it.
Returned(t, result) ==
    [pc |-> "done", now |-> t, result |-> result,
     http |-> RateLimitMiddleware("set", result)]

IdleAllowN == [pc |-> "idle", now |-> 0, result |-> "none", http |-> "none"]

\* A request through a middleware built with limiter == nil.
RLNoLimiter(q) ==
    /\ rlReqs[q].pc = "idle"
    /\ rlReqs' = [rlReqs EXCEPT ![q] =
          [pc |-> "done", now |-> rlNow, result |-> "none",
           http |-> RateLimitMiddleware("nil", "none")]]
    /\ UNCHANGED <<rlSet, rlNow, rlAdmits, cbVars, storeVars, acceptVars, psVars, otherVars>>

\* AllowN, first pipeline: now is read, the set is pruned and counted; at
\* the limit the call is rejected; a pipeline error is returned.
RLCount(q) ==
    /\ rlReqs[q].pc = "idle"
    /\ \E ok \in BOOLEAN :
          LET pruned == Prune(rlSet, rlNow)
              currentCount == Cardinality(pruned)
          IN  /\ rlSet' = IF ok THEN pruned ELSE rlSet
              /\ rlReqs' = [rlReqs EXCEPT ![q] =
                    IF ~ok THEN Returned(rlNow, "error")
                    ELSE IF currentCount + 1 > Limit
                         THEN Returned(rlNow, "rejected")
                    ELSE [pc |-> "add", now |-> rlNow, result |-> "none",
                          http |-> "none"]]
    /\ UNCHANGED <<rlNow, rlAdmits, cbVars, storeVars, acceptVars, psVars, otherVars>>

\* AllowN, second pipeline: the member is added and the call is allowed; a
\* pipeline error is returned.
RLAdd(q) ==
    /\ rlReqs[q].pc = "add"
    /\ \E ok \in BOOLEAN :
          /\ rlSet' = IF ok THEN ZAdd(rlSet, Member(rlReqs[q].now)) ELSE rlSet
          /\ rlReqs' = [rlReqs EXCEPT ![q] =
                Returned(rlReqs[q].now, IF ok THEN "allowed" ELSE "error")]
          /\ rlAdmits' = IF ok
                         THEN [rlAdmits EXCEPT ![rlReqs[q].now] = @ + 1]
                         ELSE rlAdmits
    /\ UNCHANGED <<rlNow, cbVars, storeVars, acceptVars, psVars, otherVars>>

RLTick ==
    /\ rlNow < MaxRLTime
    /\ rlNow' = rlNow + 1
    /\ UNCHANGED <<rlSet, rlReqs, rlAdmits, cbVars, storeVars, acceptVars, psVars, otherVars>>

InitRL ==
    /\ rlSet = {}
    /\ rlNow = 0
    /\ rlReqs = [q \in RLSlots |-> IdleAllowN]
    /\ rlAdmits = [t \in 0..MaxRLTime |-> 0]

(***************************************************************************)
(* Worker.calculateNextRetry called on its own.                            *)
(***************************************************************************)

NoCalc == [attempt |-> 0, at |-> 0, next |-> 0]

\* w.calculateNextRetry(attempt) at time t.
CalcNextRetry(attempt, t) ==
    LET next == calculateNextRetry(attempt, t)
    IN  /\ retryCalc' = [attempt |-> attempt, at |-> t, next |-> next]
        /\ retryDelays' = [retryDelays EXCEPT ![attempt] = @ \cup {next - t}]
        /\ UNCHANGED <<cbVars, storeVars, acceptVars, psVars, rlVars>>
        /\ UNCHANGED <<routeVars, keyVars, idemVars, patchVars, bodyVars>>

InitCalc ==
    /\ retryCalc = NoCalc
    /\ retryDelays = [a \in 1..MaxCalcAttempt |-> {}]

(***************************************************************************)
(* MultiSender.Send called on its own, on routers of every composition.    *)
(***************************************************************************)

NoRoute == [senders |-> <<>>, channel |-> "none", results |-> <<>>,
            invoked |-> <<>>, ret |-> "none"]

\* The loop of MultiSender.Send from sender k on: results[k] is what sender
\* k's Send returns when it is invoked.
RECURSIVE MultiSenderSend_TriesNextOnError(_, _, _, _)
MultiSenderSend_TriesNextOnError(senders, channel, results, k) ==
    IF k > Len(senders)
    THEN [invoked |-> <<>>, ret |-> "no sender found for channel"]
    ELSE IF SupportsChannel(senders[k], channel)
    THEN IF results[k] = "nil"
         THEN [invoked |-> <<k>>, ret |-> "nil"]
         ELSE LET rest == MultiSenderSend_TriesNextOnError(senders, channel, results, k + 1)
              IN  [invoked |-> <<k>> \o rest.invoked,
                   ret |-> IF rest.invoked = <<>> THEN results[k] ELSE rest.ret]
    ELSE MultiSenderSend_TriesNextOnError(senders, channel, results, k + 1)
RECURSIVE MultiSenderSend(_, _, _, _)
MultiSenderSend(senders, channel, results, k) ==
    IF k > Len(senders)
    THEN [invoked |-> <<>>, ret |-> "no sender found for channel"]
    ELSE IF SupportsChannel(senders[k], channel)
    THEN [invoked |-> <<k>>, ret |-> results[k]]
    ELSE MultiSenderSend(senders, channel, results, k + 1)

\* NewMultiSender(logger, senders...): a router that has sent nothing yet.
NewMultiSender(senders) ==
    /\ route' = [NoRoute EXCEPT !.senders = senders]
    /\ UNCHANGED <<cbVars, storeVars, acceptVars, psVars, rlVars>>
    /\ UNCHANGED <<calcVars, keyVars, idemVars, patchVars, bodyVars>>

\* m.Send(ctx, notif) on the current router.
RouterSend(channel, results) ==
    LET r == MultiSenderSend(route.senders, channel, results, 1)
    IN  /\ route' = [route EXCEPT !.channel = channel, !.results = results,
                                  !.invoked = r.invoked, !.ret = r.ret]
        /\ UNCHANGED <<cbVars, storeVars, acceptVars, psVars, rlVars>>
        /\ UNCHANGED <<calcVars, keyVars, idemVars, patchVars, bodyVars>>

InitRoute == route = NoRoute

(***************************************************************************)
(* The rate-limit key of a request (RateLimitMiddleware with TenantKeyFunc,*)
(* as main mounts it on /v1).                                              *)
(***************************************************************************)

NoKeyed == [header |-> "", query |-> "", body |-> "", addr |-> "", key |-> "",
            limited |-> FALSE, result |-> "none", http |-> "none"]

\* TenantKeyFunc(r): the X-Tenant-ID header, else the tenant_id query
\* parameter, else the empty key.
TenantKeyFunc(r) ==
    IF r.header # "" THEN "tenant:" \o r.header
    ELSE IF r.query # "" THEN "tenant:" \o r.query
    ELSE ""

\* The handler RateLimitMiddleware(limiter, logger, TenantKeyFunc) returns,
\* with a limiter: a request with an empty key goes to the next handler
\* without limiter.Allow being called; any other is answered as Allow
\* decides under its key.
MiddlewareServe(r, result) ==
    LET key == TenantKeyFunc(r)
    IN  /\ keyed' = [header |-> r.header, query |-> r.query, body |-> r.body,
                     addr |-> r.addr, key |-> key, limited |-> key # "",
                     result |-> IF key = "" THEN "none" ELSE result,
                     http |-> IF key = "" THEN "next"
                              ELSE RateLimitMiddleware("set", result)]
        /\ UNCHANGED <<cbVars, storeVars, acceptVars, psVars, rlVars>>
        /\ UNCHANGED <<calcVars, routeVars, idemVars, patchVars, bodyVars>>

InitKey == keyed = NoKeyed

(***************************************************************************)
(* The IdempotencyService called directly by several tenants.              *)
(***************************************************************************)

IdemSlots == {buildKey(t, k) : t \in IdemTenants, k \in IdemKeyNames}

NoIdemCall == [op |-> "none", tenant |-> "", key |-> ""]

\* s.Reserve(ctx, tenantID, idempotencyKey), Redis answering.
IdemReserve(tenantID, idempotencyKey) ==
    /\ kv' = Reserve(kv, buildKey(tenantID, idempotencyKey)).cache
    /\ idemLast' = [op |-> "reserve", tenant |-> tenantID, key |-> idempotencyKey]
    /\ UNCHANGED <<cbVars, storeVars, acceptVars, psVars, rlVars>>
    /\ UNCHANGED <<calcVars, routeVars, keyVars, patchVars, bodyVars>>

\* s.Store(ctx, tenantID, idempotencyKey, result, ttl), Redis answering.
IdemStore(tenantID, idempotencyKey, id) ==
    /\ kv' = Store(kv, buildKey(tenantID, idempotencyKey),
                   IdempotencyResult(id, StatusCreated))
    /\ idemLast' = [op |-> "store", tenant |-> tenantID, key |-> idempotencyKey]
    /\ UNCHANGED <<cbVars, storeVars, acceptVars, psVars, rlVars>>
    /\ UNCHANGED <<calcVars, routeVars, keyVars, patchVars, bodyVars>>

InitIdem ==
    /\ kv = [ck \in IdemSlots |-> Absent]
    /\ idemLast = NoIdemCall

InitAccept ==
    /\ cache = [ck \in CacheKeys |-> Absent]
    /\ reqs = [r \in ReqSlots |-> IdleRequest]
    /\ cacheFault = [ck \in CacheKeys |-> FALSE]
    /\ expired = [ck \in CacheKeys |-> FALSE]

InitStore ==
    /\ notifs = <<>>
    /\ dlq = <<>>
    /\ clock = 0
    /\ workers = [w \in Workers |-> [pc |-> "idle", batch |-> <<>>]]
    /\ retriers = [s \in RetrySlots |-> [pc |-> "idle", d |-> NullId]]
    /\ patches = 0
    /\ polls = 0
    /\ lastDlq = [op |-> "none", d |-> NullId, ok |-> TRUE, before |-> "none",
                  code |-> 0]
    /\ sendCalls = [i \in 1..MaxNotifs |-> 0]
    /\ lastProc = [outcome |-> "none", wrote |-> FALSE]

InitCB ==
    /\ cb = NewBreaker
    /\ now = 0
    /\ calls = [t \in AdmitTags |-> 0]
    /\ resets = 0
    /\ lastOp = [op |-> "New", ok |-> TRUE, tag |-> "none", from |-> "closed"]
    /\ consec = 0
    /\ consecR = 0
    /\ hoAdmitted = 0
    /\ gLastFailure = ZeroTime
    /\ openedFrom = "none"

Init ==
    /\ InitCB /\ InitStore /\ InitAccept /\ InitPS /\ InitRL /\ InitCalc
    /\ InitRoute /\ InitKey /\ InitIdem
    /\ lastPatch = NoPatch
    /\ lastReq = NoRequest

NextCB ==
    \/ Allow
    \/ \E tag \in AdmitTags : RecordSuccess(tag)
    \/ \E tag \in AdmitTags : RecordFailure(tag)
    \/ Reset
    \/ Tick

SpecCB == Init /\ [][NextCB]_vars

\* The store with its workers, the operator override and the DLQ API.
Next ==
    \/ \E data \in Datas : AcceptNoKey(data)
    \/ \E w \in Workers : processBatch(w)
    \/ \E w \in Workers : MarkProcessing(w)
    \/ \E w \in Workers : SendOk(w)
    \/ \E w \in Workers : SendFailRetry(w)
    \/ \E w \in Workers : SendFailDeadLetter(w)
    \/ \E s \in RetrySlots, d \in 1..Len(dlq) : RetryDeadLetterGet(s, d)
    \/ \E s \in RetrySlots : RetryDeadLetterCommit(s)
    \/ \E d \in 1..Len(dlq) : DiscardDeadLetter(d)
    \/ \E op \in {"retry", "discard"} : DlqCallUnknown(op)
    \/ ClockTick

Spec == Init /\ [][Next]_vars

\* One gateway process as main starts it: one worker, and every route of
\* the API including the operator's status override (PATCH).
NextOps ==
    \/ \E data \in Datas : AcceptNoKey(data)
    \/ processBatch("w1")
    \/ MarkProcessing("w1")
    \/ SendOk("w1")
    \/ SendFailRetry("w1")
    \/ SendFailDeadLetter("w1")
    \/ \E id \in 1..Len(notifs), status \in ValidStatuses,
          attempt \in PatchAttempts, errorMsg \in PatchErrors :
          HandlerUpdateNotificationStatus(id, status, attempt, errorMsg)
    \/ \E s \in RetrySlots, d \in 1..Len(dlq) : RetryDeadLetterGet(s, d)
    \/ \E s \in RetrySlots : RetryDeadLetterCommit(s)
    \/ \E d \in 1..Len(dlq) : DiscardDeadLetter(d)
    \/ ClockTick

SpecOps == Init /\ [][NextOps]_vars

\* One worker whose sender fails on every call, on a store that answers
\* every statement.  Time is taken to pass only while a pending row waits for
\* its next_retry_at: nothing in this system reads the clock otherwise.
StoreAnswers(w) ==
    IF workers[w].pc = "mark"
    THEN notifs' = UpdateNotificationStatus(notifs, Current(w).id, "processing",
                                            Current(w).attempt, NULL, Current(w).next)
    ELSE lastProc'.wrote

TimePasses ==
    /\ \E i \in DOMAIN notifs : notifs[i].status = "pending" /\ notifs[i].next > clock
    /\ clock' = clock + 1
    /\ UNCHANGED <<notifs, dlq, workers, retriers, patches, polls, lastDlq>>
    /\ UNCHANGED procHist
    /\ UNCHANGED <<sideVars, acceptVars>>

WorkerFails ==
    \/ Fetch("w1") /\ UNCHANGED polls
    \/ MarkProcessing("w1") /\ StoreAnswers("w1")
    \/ SendFailRetry("w1") /\ StoreAnswers("w1")
    \/ SendFailDeadLetter("w1") /\ StoreAnswers("w1")

NextFail ==
    \/ \E data \in Datas : AcceptNoKey(data)
    \/ WorkerFails
    \/ TimePasses

\* The ticker of Start keeps firing and the worker goroutine keeps running
\* until its context is cancelled; time passes.
SpecFail ==
    Init /\ [][NextFail]_vars /\ WF_vars(WorkerFails) /\ WF_vars(TimePasses)

\* One worker with every outcome of its sender, on a store that answers the
\* processing mark and may fail every outcome write and dead-letter move
\* (which is also what a cancelled context makes of them), polling for as
\* long as it runs.
WorkerRuns ==
    \/ Fetch("w1") /\ UNCHANGED polls
    \/ MarkProcessing("w1") /\ StoreAnswers("w1")
    \/ SendOk("w1")
    \/ SendFailRetry("w1")
    \/ SendFailDeadLetter("w1")

NextWorker ==
    \/ \E data \in Datas : AcceptNoKey(data)
    \/ WorkerRuns
    \/ TimePasses

\* The ticker of Start keeps firing and processNotification runs to its end;
\* time passes.
SpecWorker ==
    Init /\ [][NextWorker]_vars /\ WF_vars(WorkerRuns) /\ WF_vars(TimePasses)

\* calculateNextRetry with every attempt number and time in the bounds.
NextCalc ==
    \E attempt \in 1..MaxCalcAttempt, t \in 0..MaxCalcTime : CalcNextRetry(attempt, t)

SpecCalc == Init /\ [][NextCalc]_vars

\* MultiSender.Send on every router of at most MaxSenders senders, for every
\* channel and every result of the senders.
NextRoute ==
    \/ \E n \in 0..MaxSenders : \E senders \in [1..n -> SenderKinds] :
          NewMultiSender(senders)
    \/ \E results \in [DOMAIN route.senders -> {"nil", "err"}],
          channel \in RouteChannels :
          RouterSend(channel, results)

SpecRoute == Init /\ [][NextRoute]_vars

\* Requests to /v1 naming their tenant in the header, the query, the body,
\* several of them or none, with every answer of the limiter.
NextKey ==
    \E header \in TenantNames, query \in TenantNames, body \in TenantNames,
       addr \in RemoteAddrs, result \in {"allowed", "rejected", "error"} :
       MiddlewareServe([header |-> header, query |-> query, body |-> body,
                        addr |-> addr], result)

SpecKey == Init /\ [][NextKey]_vars

\* The operator override with every body, on accepted notifications.
NextPatch ==
    \/ \E data \in Datas : AcceptNoKey(data)
    \/ \E id \in 1..Len(notifs), status \in PatchStatuses,
          attempt \in PatchAnyAttempts, errorMsg \in PatchErrors :
          PatchRequest(id, status, attempt, errorMsg)

SpecPatch == Init /\ [][NextPatch]_vars

\* Reserve and Store called by every tenant with every key, in any order.
NextIdem ==
    \/ \E t \in IdemTenants, k \in IdemKeyNames : IdemReserve(t, k)
    \/ \E t \in IdemTenants, k \in IdemKeyNames, id \in 1..MaxIdemIds :
          IdemStore(t, k, id)

SpecIdem == Init /\ [][NextIdem]_vars

\* Acceptance requests carrying an Idempotency-Key.
NextAccept ==
    \/ \E r \in ReqSlots, t \in Tenants, k \in IdemKeys, data \in Datas :
          AcceptStart(r, t, k, data)
    \/ \E r \in ReqSlots : AcceptCheck(r)
    \/ \E r \in ReqSlots : AcceptReserve(r)
    \/ \E r \in ReqSlots : AcceptPersist(r)
    \/ \E r \in ReqSlots : AcceptStore(r)
    \/ \E ck \in CacheKeys : Expire(ck)

SpecAccept == Init /\ [][NextAccept]_vars

\* Requests of one tenant repeating one Idempotency-Key.  A handler runs to
\* its end, and Redis removes a key when the TTL it was set with is over
\* (processingTTL for the marker of Reserve).
HandlerRuns ==
    \/ \E r \in ReqSlots : AcceptCheck(r)
    \/ \E r \in ReqSlots : AcceptReserve(r)
    \/ \E r \in ReqSlots : AcceptPersist(r)
    \/ \E r \in ReqSlots : AcceptStore(r)

NextRepeat ==
    \/ \E r \in ReqSlots, data \in Datas : AcceptStart(r, "t1", "k1", data)
    \/ HandlerRuns
    \/ \E r \in ReqSlots : AcceptCrash(r)
    \/ Expire(buildKey("t1", "k1"))

SpecRepeat ==
    /\ Init /\ [][NextRepeat]_vars
    /\ WF_vars(HandlerRuns) /\ WF_vars(Expire(buildKey("t1", "k1")))

\* Two requests with every body, each run to its end by the handler.
NextBody ==
    \/ \E r \in {"r1", "r2"}, b \in Bodies : CreateNotificationArrives(r, b)
    \/ HandlerRuns

SpecBody == Init /\ [][NextBody]_vars

\* Concurrent calls of ProtectedSender.Send on one breaker.
NextPS ==
    \/ \E c \in PSCalls : PSAllow(c)
    \/ \E c \in PSCalls : PSInnerSend(c)
    \/ \E c \in PSCalls : PSRecord(c)
    \/ \E c \in PSCalls : PSNext(c)
    \/ PSTick

SpecPS == Init /\ [][NextPS]_vars

\* Concurrent calls of RateLimiter.AllowN on one key.
NextRL ==
    \/ \E q \in RLSlots : RLNoLimiter(q)
    \/ \E q \in RLSlots : RLCount(q)
    \/ \E q \in RLSlots : RLAdd(q)
    \/ RLTick

SpecRL == Init /\ [][NextRL]_vars

(***************************************************************************)
(* Properties of the circuit breaker (checked under SpecCB).               *)
(***************************************************************************)

\* C6, as stated: a failure recorded in closed opens the breaker exactly when
\* the failures recorded since the last recorded success (or creation) have
\* reached max_failures; nothing else opens a closed breaker; a success
\* recorded in closed clears the failure counter.
C6_OpensAtThresholdSinceSuccess ==
    /\ (lastOp.op = "RecordFailure" /\ lastOp.from = "closed")
          => (cb.state = "open" <=> consec >= MaxFailures)
    /\ (lastOp.from = "closed" /\ cb.state = "open") => lastOp.op = "RecordFailure"
    /\ (lastOp.op = "RecordSuccess" /\ lastOp.from = "closed")
          => (cb.failureCount = 0 /\ cb.state = "closed")

\* C6, amended: the same with the failures counted since the last recorded
\* success, the last manual Reset or creation, whichever is latest.
C6_OpensAtThresholdSinceSuccessOrReset ==
    /\ (lastOp.op = "RecordFailure" /\ lastOp.from = "closed")
          => (cb.state = "open" <=> consecR >= MaxFailures)
    /\ (lastOp.from = "closed" /\ cb.state = "open") => lastOp.op = "RecordFailure"
    /\ (lastOp.op = "RecordSuccess" /\ lastOp.from = "closed")
          => (cb.failureCount = 0 /\ cb.state = "closed")
    /\ cb.state = "closed" => consecR < MaxFailures

\* C6 witness: after a Reset, the breaker opens from closed on the failure
\* that brings the count since that Reset to max_failures.
C6_Witness ==
    /\ lastOp.op = "RecordFailure" /\ lastOp.from = "closed"
    /\ cb.state = "open"
    /\ resets > 0
    /\ consecR = MaxFailures
    /\ consec > MaxFailures

\* C7, as stated: the breaker leaves open or half-open for closed only
\* through the success of a probe call admitted in half-open, and such a
\* success closes it.
C7_ClosedOnlyByProbeSuccess ==
    /\ (lastOp.from # "closed" /\ cb.state = "closed")
          => (lastOp.op = "RecordSuccess" /\ lastOp.tag = "half-open")
    /\ (lastOp.op = "RecordSuccess" /\ lastOp.tag = "half-open"
          /\ lastOp.from = "half-open") => cb.state = "closed"

\* C7, amended: the breaker leaves open or half-open for closed only through
\* a success recorded while it is half-open (reported by any admitted call,
\* a probe or one admitted before the breaker opened) or through a manual
\* Reset; every success recorded while half-open closes it; elapsed time,
\* Allow, failures and successes recorded while open never close it.
C7_ClosedOnlyBySuccessInHalfOpenOrReset ==
    /\ (lastOp.from # "closed" /\ cb.state = "closed")
          => \/ lastOp.op = "Reset"
             \/ (lastOp.op = "RecordSuccess" /\ lastOp.from = "half-open")
    /\ (lastOp.op = "RecordSuccess" /\ lastOp.from = "half-open")
          => cb.state = "closed"
    /\ (lastOp.op = "RecordSuccess" /\ lastOp.from = "open") => cb.state = "open"

\* C7 witness: a probe admitted in half-open succeeded and closed the breaker.
C7_Witness ==
    /\ lastOp.op = "RecordSuccess" /\ lastOp.tag = "half-open"
    /\ lastOp.from = "half-open"
    /\ cb.state = "closed"

\* C8: an Allow made while the breaker is open rejects the call and leaves it
\* open as long as less than recovery_timeout has passed since the last
\* recorded failure; otherwise it admits the call and the breaker is
\* half-open.
C8_OpenRejectsUntilRecoveryTimeout ==
    (lastOp.op = "Allow" /\ lastOp.from = "open")
        => IF now - gLastFailure >= RecoveryTimeout
           THEN lastOp.ok /\ cb.state = "half-open"
           ELSE ~lastOp.ok /\ cb.state = "open"

\* C8 witness: the first Allow at exactly recovery_timeout after the last
\* failure is admitted and the breaker is half-open.
C8_Witness ==
    /\ lastOp.op = "Allow" /\ lastOp.from = "open"
    /\ now - gLastFailure = RecoveryTimeout
    /\ lastOp.ok
    /\ cb.state = "half-open"

\* C9: in one half-open episode Allow admits at most half_open_max_requests
\* calls, the call that moved the breaker from open to half-open included.
C9_HalfOpenAdmitsAtMostMax ==
    hoAdmitted <= HalfOpenMaxRequests

\* C9 witness: a half-open breaker that has admitted half_open_max_requests
\* calls rejects the next one.
C9_Witness ==
    /\ cb.state = "half-open"
    /\ hoAdmitted = HalfOpenMaxRequests
    /\ lastOp.op = "Allow" /\ ~lastOp.ok

\* C10: a failure recorded in half-open leaves the breaker open whatever the
\* failure count, and from then on Allow rejects until recovery_timeout has
\* passed since that failure (or a later one).
C10_FailedProbeReopens ==
    /\ (lastOp.op = "RecordFailure" /\ lastOp.from = "half-open")
          => (cb.state = "open" /\ gLastFailure = now)
    /\ (lastOp.op = "Allow" /\ lastOp.from = "open" /\ openedFrom = "half-open"
          /\ now - gLastFailure < RecoveryTimeout)
          => (~lastOp.ok /\ cb.state = "open")

\* C10 witness: a probe fails while the failure count is below max_failures
\* and the breaker is open again.
C10_Witness ==
    /\ lastOp.op = "RecordFailure" /\ lastOp.from = "half-open"
    /\ cb.state = "open"
    /\ cb.failureCount < MaxFailures

(***************************************************************************)
(* Claims on the store.                                                    *)
(***************************************************************************)

\* C1: once a notification's stored status is sent or dead_lettered, no
\* later step (worker processing mark, worker outcome write, dead-letter
\* move, DLQ retry or discard) changes its status.
C1_TerminalStatusNeverChanges ==
    [][\A i \in DOMAIN notifs :
          notifs[i].status \in {"sent", "dead_lettered"}
             => notifs'[i].status = notifs[i].status]_vars

\* C4: for every DLQ entry, whatever retry calls were made on it, in sequence
\* or interleaved, at most one of them succeeded and at most one notification
\* was created from it.
C4_AtMostOneRetrySucceeds ==
    \A d \in DOMAIN dlq :
       /\ dlq[d].retryOK <= 1
       /\ Cardinality({i \in DOMAIN notifs : notifs[i].via = d}) <= 1

\* C5: a DLQ entry that is retried or discarded keeps its dlq-status in every
\* later step, and a discard call that found the entry retried or discarded
\* fails.
C5_TerminalDlqStatusFinal ==
    [][/\ \A d \in DOMAIN dlq :
             dlq[d].status \in {"retried", "discarded"}
                => dlq'[d].status = dlq[d].status
       /\ (lastDlq'.op = "discard" /\ lastDlq'.before # "pending")
             => ~lastDlq'.ok]_vars

(***************************************************************************)
(* Claims on idempotent acceptance.                                        *)
(***************************************************************************)

\* The notifications persisted by the requests that carried a given key.
Persisted(ck) ==
    {i \in DOMAIN notifs :
        notifs[i].by \in ReqSlots /\ reqs[notifs[i].by].ck = ck}
Done(r) == reqs[r].pc = "done"
OnKey(ck) == {r \in ReqSlots : reqs[r].pc # "idle" /\ reqs[r].ck = ck}

\* C2: among the acceptances of one (tenant, Idempotency-Key), run in any
\* interleaving of their check, reserve, persist and store steps with the
\* cache answering every call, at most one persists a notification -- exactly
\* one once all have returned, unless the winner's insert failed -- and every
\* other one answers with the winner's stored notification id or with 409.
C2_OneWinnerAmongConcurrent ==
    \A ck \in CacheKeys :
       (~cacheFault[ck] /\ ~expired[ck]) =>
          /\ Cardinality(Persisted(ck)) <= 1
          /\ \A r \in OnKey(ck) :
                Done(r) =>
                   \/ /\ reqs[r].resp.kind \in {"created", "enqueue_error"}
                      /\ Persisted(ck) = {reqs[r].id}
                      /\ notifs[reqs[r].id].by = r
                   \/ /\ reqs[r].resp.kind = "replayed"
                      /\ Persisted(ck) = {reqs[r].resp.id}
                      /\ notifs[reqs[r].resp.id].by # r
                   \/ /\ reqs[r].resp.kind = "conflict"
                      /\ reqs[r].resp.code = StatusConflict
                      /\ \A i \in Persisted(ck) : notifs[i].by # r
                   \/ /\ reqs[r].resp.kind = "db_error"
                      /\ Persisted(ck) = {}
          /\ ( /\ OnKey(ck) # {}
               /\ \A r \in OnKey(ck) : Done(r) /\ reqs[r].resp.kind # "db_error" )
                => Cardinality(Persisted(ck)) = 1

\* Two requests on one key overlapped: one created the notification, the
\* other was answered 409.
C2_Witness ==
    \E r1 \in ReqSlots, r2 \in ReqSlots :
       /\ r1 # r2
       /\ reqs[r1].ck = reqs[r2].ck
       /\ ~cacheFault[reqs[r1].ck] /\ ~expired[reqs[r1].ck]
       /\ reqs[r1].pc = "done" /\ reqs[r1].resp.kind = "created"
       /\ reqs[r2].pc = "done" /\ reqs[r2].resp.kind = "conflict"

\* C3: while a key holds a stored outcome (no expiry yet, the cache answering
\* every call on the key), exactly one notification exists for the key, and
\* every acceptance that arrived after the outcome was stored has returned
\* that notification's id as a replay, persisting nothing.
C3_StoredOutcomeReplayed ==
    \A ck \in CacheKeys :
       (cache[ck].kind = "result" /\ ~cacheFault[ck] /\ ~expired[ck]) =>
          /\ Persisted(ck) = {cache[ck].id}
          /\ \A r \in OnKey(ck) :
                (Done(r) /\ reqs[r].after # NullId) =>
                   /\ reqs[r].resp.kind = "replayed"
                   /\ reqs[r].resp.id = reqs[r].after
                   /\ reqs[r].resp.id = cache[ck].id
                   /\ notifs[reqs[r].resp.id].by # r

\* A request that arrived after the outcome was stored has been answered.
C3_Witness ==
    \E r \in ReqSlots :
       /\ reqs[r].pc = "done"
       /\ reqs[r].after # NullId
       /\ reqs[r].resp.kind = "replayed"
       /\ cache[reqs[r].ck].kind = "result"
       /\ ~cacheFault[reqs[r].ck] /\ ~expired[reqs[r].ck]

(***************************************************************************)
(* Claims on ProtectedSender and on the rate limiter.                      *)
(***************************************************************************)

\* C11: Send calls the inner sender iff Allow admitted the call: a denied
\* call returns circuit-open with no inner call and no outcome recorded; an
\* admitted call makes exactly one inner call and records exactly one
\* outcome, the one it returns.
C11_InnerSenderIffAdmitted ==
    \A c \in PSCalls :
       LET k == psCalls[c]
           recorded == k.successes + k.failures
       IN  /\ k.invoked <= 1 /\ recorded <= 1
           /\ k.invoked > 0 => k.admitted
           /\ recorded > 0 => k.invoked = 1
           /\ k.pc = "done" =>
                 IF k.admitted
                 THEN /\ k.invoked = 1 /\ recorded = 1
                      /\ k.ret = "nil" <=> k.successes = 1
                      /\ k.ret = "err" <=> k.failures = 1
                 ELSE /\ k.ret = "circuit-open"
                      /\ k.invoked = 0 /\ recorded = 0

\* One call was denied by the open breaker while another, admitted, has
\* returned the inner sender's error.
C11_Witness ==
    \E c1 \in PSCalls, c2 \in PSCalls :
       /\ psCalls[c1].pc = "done" /\ psCalls[c1].ret = "circuit-open"
       /\ psCalls[c2].pc = "done" /\ psCalls[c2].ret = "err"
       /\ psBreaker.state = "open"

\* Calls admitted with a time in lo..hi.
RECURSIVE AdmittedIn(_, _)
AdmittedIn(lo, hi) ==
    IF lo > hi THEN 0
    ELSE (IF lo >= 0 THEN rlAdmits[lo] ELSE 0) + AdmittedIn(lo + 1, hi)

\* C12: in every window of length Window, the calls admitted for the key
\* are at most Limit.
C12_AdmittedWithinLimit ==
    \A t \in 0..MaxRLTime : AdmittedIn(t - Window + 1, t) <= Limit

(***************************************************************************)
(* Claims on attempts, retry times and the dead-letter queue.              *)
(***************************************************************************)

\* C13: every notification's attempt count is at most MaxRetries
\* (max_attempts).
C13_AttemptAtMostMax ==
    \A i \in DOMAIN notifs : notifs[i].attempt <= MaxRetries

\* C14: every notification whose status is sent has attempt >= 1.
C14_SentHasAttempt ==
    \A i \in DOMAIN notifs : notifs[i].status = "sent" => notifs[i].attempt >= 1

\* C15: no step decreases a notification's stored attempt count.
C15_AttemptNeverDecreases ==
    [][\A i \in DOMAIN notifs : notifs'[i].attempt >= notifs[i].attempt]_vars

\* C16: a notification whose status is sent or dead_lettered has
\* next_retry_at unset.
C16_TerminalHasNoNextRetry ==
    \A i \in DOMAIN notifs :
       notifs[i].status \in {"sent", "dead_lettered"} => notifs[i].next = NullTime

\* C17: a DLQ entry's dlq-status is retried iff its retried_notification_id
\* is set, whatever retry and discard calls ran and however they interleaved.
C17_RetriedIffRetriedIdSet ==
    \A d \in DOMAIN dlq : dlq[d].status = "retried" <=> dlq[d].retried # NullId

\* A discard call has just failed on an entry that a retry had set retried,
\* while another entry may be discarded.
C17_Witness ==
    /\ lastDlq.op = "discard" /\ ~lastDlq.ok
    /\ lastDlq.d \in DOMAIN dlq
    /\ dlq[lastDlq.d].status = "retried"
    /\ dlq[lastDlq.d].retried # NullId

\* C18: MoveToDeadLetter is all-or-nothing: a step adds a DLQ row only
\* together with the status dead_lettered of the notification the row names,
\* a notification becomes dead_lettered only together with its new DLQ row,
\* and a MoveToDeadLetter that returned an error before its commit changed
\* neither table.
C18_MoveToDeadLetterAllOrNothing ==
    [][/\ Len(dlq') > Len(dlq) =>
             /\ Len(dlq') = Len(dlq) + 1
             /\ notifs'[dlq'[Len(dlq')].orig].status = "dead_lettered"
       /\ \A i \in DOMAIN notifs :
             (notifs'[i].status = "dead_lettered" /\ notifs[i].status # "dead_lettered")
                => /\ Len(dlq') = Len(dlq) + 1
                   /\ dlq'[Len(dlq')].orig = i
       /\ \A w \in Workers :
             ( /\ workers[w].pc = "send" /\ workers'[w] # workers[w]
               /\ lastProc'.outcome = "dead_letter"
               /\ Len(dlq') = Len(dlq) )
                => notifs' = notifs /\ dlq' = dlq]_vars

\* A MoveToDeadLetter has returned an error and left both tables as they
\* were: no DLQ row, the notification still processing.
C18_Witness ==
    /\ lastProc.outcome = "dead_letter" /\ ~lastProc.wrote
    /\ dlq = <<>>
    /\ \E i \in DOMAIN notifs :
          notifs[i].status = "processing" /\ sendCalls[i] = MaxRetries

\* C19: every DLQ entry created by the worker at the MaxRetries-th failed
\* send records attempts = MaxRetries.
C19_DlqAttemptsEqualMax ==
    \A d \in DOMAIN dlq : dlq[d].attempts = MaxRetries

\* C20: when a worker's send of a notification fetched with attempt a
\* succeeds and the outcome is written, the notification is then sent with
\* attempt a + 1, no error and no next_retry_at, and the sender was called
\* once in that processing.
C20_SuccessfulSendOutcome ==
    [][\A w \in Workers :
          ( /\ workers[w].pc = "send" /\ workers'[w] # workers[w]
            /\ lastProc'.outcome = "sent" /\ lastProc'.wrote )
             => LET n == Head(workers[w].batch)
                IN  /\ notifs'[n.id].status = "sent"
                    /\ notifs'[n.id].attempt = n.attempt + 1
                    /\ notifs'[n.id].err = NULL
                    /\ notifs'[n.id].next = NullTime
                    /\ sendCalls'[n.id] = sendCalls[n.id] + 1]_vars

\* A notification fetched on its first pickup has been sent: attempt 1 after
\* one call of the sender.
C20_Witness ==
    /\ lastProc = [outcome |-> "sent", wrote |-> TRUE]
    /\ \E i \in DOMAIN notifs :
          /\ notifs[i].status = "sent" /\ notifs[i].attempt = 1
          /\ sendCalls[i] = 1

C37_LeftoverReservationExpires ==
    /\ [][\A r \in ReqSlots :
            ( /\ reqs[r].pc \in {"check", "reserve"}
              /\ reqs'[r] # reqs[r]
              /\ ~reqs'[r].fault )
            => /\ cache[reqs[r].ck].kind = "processing"
                  => /\ reqs'[r].pc = "done"
                     /\ reqs'[r].resp.kind = "conflict"
                     /\ reqs'[r].resp.code = 409
               /\ cache[reqs[r].ck].kind = "none"
                  => reqs'[r].pc = IF reqs[r].pc = "check" THEN "reserve"
                                  ELSE "persist"]_vars
    /\ \A ck \in CacheKeys :
          (cache[ck].kind = "processing") ~> (cache[ck].kind # "processing")

\* The first request reserved the key and was answered 500 because the insert
\* failed (or stopped before it answered); the second, arriving while the
\* marker was in place, was answered 409; the marker expired; the third was
\* accepted and persisted as a new notification.
C37_Witness ==
    \E r1, r2, r3 \in ReqSlots :
       /\ reqs[r1].pc = "done" /\ ~reqs[r1].fault
       /\ \/ reqs[r1].resp.kind = "db_error" /\ reqs[r1].resp.code = 500
          \/ reqs[r1].resp.kind = "crashed"
       /\ reqs[r2].pc = "done" /\ reqs[r2].resp.kind = "conflict" /\ ~reqs[r2].fault
       /\ expired[reqs[r1].ck]
       /\ reqs[r3].pc = "done" /\ reqs[r3].resp.kind = "created" /\ ~reqs[r3].fault
       /\ reqs[r1].ck = reqs[r2].ck /\ reqs[r2].ck = reqs[r3].ck
       /\ Len(notifs) = 1 /\ notifs[1].by = r3

C24_RetryCreatesFreshNotification ==
    [][\A s \in RetrySlots :
          ( /\ retriers[s].pc = "tx" /\ retriers'[s].pc = "idle"
            /\ lastDlq'.op = "retry" /\ lastDlq'.ok )
             => LET d == retriers[s].d
                    N == Len(notifs')
                IN  /\ N = Len(notifs) + 1
                    /\ N \notin DOMAIN notifs
                    /\ notifs'[N].status = "pending"
                    /\ notifs'[N].attempt = 0
                    /\ notifs'[N].err = NULL
                    /\ notifs'[N].next = NullTime
                    /\ notifs'[N].data = dlq[d].data
                    /\ dlq'[d].status = "retried"
                    /\ dlq'[d].retried = N
                    /\ dlq'[d].data = dlq[d].data
                    /\ dlq'[d].orig = dlq[d].orig
                    /\ dlq'[d].attempts = dlq[d].attempts
                    /\ dlq'[d].lastError = dlq[d].lastError
                    /\ \A e \in DOMAIN dlq : e # d => dlq'[e] = dlq[e]
                    /\ \A i \in DOMAIN notifs : notifs'[i] = notifs[i]]_vars

\* A retry has just succeeded on an entry whose original had been attempted:
\* the entry is retried and points at the last row, which is pending with
\* attempt 0, and the original is still dead_lettered.
C24_Witness ==
    /\ lastDlq.op = "retry" /\ lastDlq.ok /\ lastDlq.before = "pending"
    /\ lastDlq.d \in DOMAIN dlq
    /\ LET D == dlq[lastDlq.d]
       IN  /\ D.status = "retried" /\ D.retried = Len(notifs)
           /\ D.attempts > 0
           /\ notifs[D.retried].status = "pending"
           /\ notifs[D.retried].attempt = 0
           /\ notifs[D.retried].data = D.data
           /\ notifs[D.orig].status = "dead_lettered"

\* C25: when no sender supports the channel of the notification a worker
\* processes, that processing ends in the move to the dead-letter queue, on
\* the first pickup already, and never in a scheduled retry.
C25_NoSenderGoesToDeadLetter ==
    [][\A w \in Workers :
          ( /\ workers[w].pc = "send" /\ workers'[w] # workers[w]
            /\ RouteTo(Senders, Channel(Head(workers[w].batch).data)) = 0 )
             => lastProc'.outcome = "dead_letter"]_vars

\* C26: an answered POST /v1/notifications that accepted a new notification
\* has status 201 and the new id; one that replayed a stored outcome (the
\* response with X-Idempotency-Replayed: true) has status 200 and the id the
\* first answer had.
C26_Created201Replayed200 ==
    \A r \in ReqSlots :
       Done(r) =>
          /\ reqs[r].resp.kind = "created" =>
                reqs[r].resp.code = 201 /\ reqs[r].resp.id = reqs[r].id
          /\ reqs[r].resp.kind = "replayed" =>
                reqs[r].resp.code = 200 /\ reqs[r].resp.id \in DOMAIN notifs

\* C27: an acceptance carrying an Idempotency-Key one of whose cache calls
\* (check, reserve or store) returned an error is never answered with a
\* conflict, a replay or an error of the cache; unless the insert or the
\* enqueue failed it is answered 201 with the id of the one pending
\* notification it persisted.
C27_CacheErrorStillAccepts ==
    \A r \in ReqSlots :
       (Done(r) /\ reqs[r].fault) =>
          LET mine == {i \in DOMAIN notifs : notifs[i].by = r}
          IN  /\ reqs[r].resp.kind \in {"created", "db_error", "enqueue_error"}
              /\ reqs[r].resp.kind = "db_error" <=> mine = {}
              /\ reqs[r].resp.kind # "db_error" =>
                    /\ mine = {reqs[r].id}
                    /\ notifs[reqs[r].id].status = "pending"
                    /\ notifs[reqs[r].id].attempt = 0
              /\ reqs[r].resp.kind = "created" =>
                    /\ reqs[r].resp.code = StatusCreated
                    /\ reqs[r].resp.id = reqs[r].id

\* While the key holds another request's stored outcome, a request whose
\* check failed has persisted a second notification and was answered 201.
C27_Witness ==
    \E r \in ReqSlots :
       /\ Done(r) /\ reqs[r].fault
       /\ reqs[r].resp.kind = "created"
       /\ cache[reqs[r].ck].kind = "result"
       /\ cache[reqs[r].ck].id # reqs[r].id
       /\ Cardinality(Persisted(reqs[r].ck)) = 2

\* C29: an acceptance whose enqueue failed was answered with a 5xx; the
\* notification it persisted is pending and due for the polling worker; and
\* while the cache answers every call on its key and the stored outcome has
\* not expired, that notification is the only one persisted for the key:
\* every other answered request on the key replayed its id or got 409.
C29_EnqueueFailureKeepsNotification ==
    \A r \in ReqSlots :
       (Done(r) /\ reqs[r].resp.kind = "enqueue_error") =>
          LET ck == reqs[r].ck
              id == reqs[r].id
          IN  /\ reqs[r].resp.code >= 500 /\ reqs[r].resp.code <= 599
              /\ id \in DOMAIN notifs
              /\ notifs[id].by = r
              /\ IsDue(notifs[id], clock)
              /\ (~cacheFault[ck] /\ ~expired[ck]) =>
                    /\ Persisted(ck) = {id}
                    /\ \A q \in OnKey(ck) \ {r} :
                          Done(q) =>
                             \/ /\ reqs[q].resp.kind = "replayed"
                                /\ reqs[q].resp.id = id
                             \/ reqs[q].resp.kind = "conflict"

\* A request was answered 500 after its enqueue failed, and a later request
\* with the same key was answered with the id of the first one's
\* notification, the only one for the key.
C29_Witness ==
    \E r \in ReqSlots, q \in ReqSlots :
       /\ Done(r) /\ reqs[r].resp.kind = "enqueue_error"
       /\ Done(q) /\ reqs[q].ck = reqs[r].ck
       /\ reqs[q].after = reqs[r].id
       /\ reqs[q].resp.kind = "replayed" /\ reqs[q].resp.id = reqs[r].id
       /\ ~cacheFault[reqs[r].ck] /\ ~expired[reqs[r].ck]
       /\ Persisted(reqs[r].ck) = {reqs[r].id}

\* C28: a request whose rate-limit check returned an error (in the counting
\* or in the recording pipeline) is passed to the next handler, and so is a
\* request through a middleware that has no limiter; a request is answered
\* 429 only when the limiter rejected it.
C28_LimiterErrorAdmits ==
    \A q \in RLSlots :
       rlReqs[q].pc = "done" =>
          /\ rlReqs[q].result \in {"error", "none"} => rlReqs[q].http = "next"
          /\ rlReqs[q].http = "429" <=> rlReqs[q].result = "rejected"
          /\ rlReqs[q].http \in {"next", "429"}

\* One request was passed on after its rate-limit check failed, one through
\* a middleware with no limiter, and one after the limiter allowed it.
C28_Witness ==
    \E q1 \in RLSlots, q2 \in RLSlots :
       /\ rlReqs[q1].pc = "done" /\ rlReqs[q1].result = "error"
       /\ rlReqs[q1].http = "next"
       /\ \E q3 \in RLSlots : rlReqs[q3].result = "allowed"
       /\ rlReqs[q2].pc = "done" /\ rlReqs[q2].result = "none"
       /\ rlReqs[q2].http = "next"

\* C30: a retry or discard call on a DLQ entry that is already retried or
\* discarded is answered with a conflict error, and a call on an id no entry
\* has with a not-found error.
C30_DlqConflictAndNotFound ==
    (lastDlq.op \in {"retry", "discard"} /\ ~lastDlq.ok) =>
       /\ lastDlq.before \in {"retried", "discarded"} =>
             lastDlq.code = StatusConflict
       /\ lastDlq.before = "unknown" => lastDlq.code = 404


(***************************************************************************)
(* Claims on workers that picked the same notification.                    *)
(***************************************************************************)

\* C35: when two workers picked the same notification, no step of a worker's
\* processNotification (its processing mark or its outcome write) changes a
\* stored status that is already sent or dead_lettered.
C35_WorkerWritesKeepTerminalStatus ==
    [][\A w \in Workers :
          ( /\ workers[w].pc \in {"mark", "send"}
            /\ workers'[w] # workers[w] )
          => \A i \in DOMAIN notifs :
                notifs[i].status \in {"sent", "dead_lettered"}
                   => notifs'[i].status = notifs[i].status]_vars

\* C36: a fetch returns only rows that are pending and due (next_retry_at
\* unset or not after the clock), oldest first and at most BatchSize of them,
\* so no row marked processing is returned; and whenever a worker invokes the
\* sender for a notification, the notification's stored next_retry_at is unset
\* or not in the future.
C36_FetchOnlyDuePendingAndSendNotEarly ==
    [][\A w \in Workers :
          /\ ( workers[w].pc = "idle" /\ workers'[w].pc = "mark" )
             => LET batch == workers'[w].batch
                IN  /\ Len(batch) <= BatchSize
                    /\ \A k \in 1..Len(batch) :
                          /\ notifs[batch[k].id].status = "pending"
                          /\ IsDue(notifs[batch[k].id], clock)
                    /\ \A k \in 1..(Len(batch) - 1) : batch[k].id < batch[k + 1].id
                    /\ \A i \in DOMAIN notifs :
                          ( /\ notifs[i].status = "pending"
                            /\ IsDue(notifs[i], clock)
                            /\ \A k \in 1..Len(batch) : batch[k].id # i )
                          => /\ Len(batch) = BatchSize
                             /\ \A k \in 1..Len(batch) : batch[k].id < i
          /\ ( workers[w].pc = "send" /\ workers'[w] # workers[w] )
             => \/ notifs[Current(w).id].next = NullTime
                \/ notifs[Current(w).id].next <= clock]_vars

\* C40: for every notification at most one DLQ entry refers to it, and a DLQ
\* entry refers to it only if its stored status is dead_lettered (it reached
\* terminal failure), with one or more workers.
C40_AtMostOneDlqEntryPerNotification ==
    \A i \in DOMAIN notifs :
       LET entries == {d \in DOMAIN dlq : dlq[d].orig = i}
       IN  /\ Cardinality(entries) <= 1
           /\ entries # {} => notifs[i].status = "dead_lettered"


\* C39: every notification marked processing eventually leaves processing,
\* whatever the outcome of the worker's send and of its writes to the store.
C39_ProcessingEventuallyLeft ==
    \A i \in 1..MaxNotifs :
       (i \in DOMAIN notifs /\ notifs[i].status = "processing")
          ~> (i \in DOMAIN notifs /\ notifs[i].status # "processing")


\* C38: MultiSender.Send invokes exactly one sender, the first in the
\* router's order that supports the notification's channel, and returns that
\* sender's result unchanged; no later sender is invoked even if it supports
\* the channel too; when no sender supports the channel none is invoked and
\* the call returns the "no sender found" error.
C38_FirstSupportingSenderOnly ==
    route.channel # "none" =>
       LET S == {k \in DOMAIN route.senders :
                    SupportsChannel(route.senders[k], route.channel)}
       IN  IF S = {}
           THEN /\ route.invoked = <<>>
                /\ route.ret = "no sender found for channel"
           ELSE /\ Len(route.invoked) = 1
                /\ route.invoked[1] \in S
                /\ \A j \in S : route.invoked[1] <= j
                /\ route.ret = route.results[route.invoked[1]]

\* A router whose first sender does not support the channel and whose second
\* and third both do: the second was invoked and failed, the third would have
\* succeeded, and the call returned the second's error.
C38_Witness ==
    /\ Len(route.senders) = 3
    /\ ~SupportsChannel(route.senders[1], route.channel)
    /\ SupportsChannel(route.senders[2], route.channel)
    /\ SupportsChannel(route.senders[3], route.channel)
    /\ route.results[2] = "err" /\ route.results[3] = "nil"
    /\ route.invoked = <<2>>
    /\ route.ret = "err"


\* C34: the rate-limit key of a request is tenant:<X-Tenant-ID> when that
\* header is present, else tenant:<tenant_id> taken from the query or the
\* body, else ip:<client address>; so every request to /v1, one that names
\* its tenant only in the body included, is admitted or rejected by the
\* limiter under some key.
C34_EveryRequestLimitedUnderItsKey ==
    keyed # NoKeyed =>
       /\ keyed.header # "" => keyed.key = "tenant:" \o keyed.header
       /\ (keyed.header = "" /\ (keyed.query # "" \/ keyed.body # ""))
             => \E t \in {keyed.query, keyed.body} \ {""} :
                   keyed.key = "tenant:" \o t
       /\ (keyed.header = "" /\ keyed.query = "" /\ keyed.body = "")
             => keyed.key = "ip:" \o keyed.addr
       /\ keyed.limited


\* C33: idempotency keys are scoped per tenant: a Reserve or a Store for
\* (tenant A, key k) never changes what Check, and so CheckOrReserve, returns
\* for (tenant B, key k) with B different from A.
C33_TenantsDoNotShareKeys ==
    [][idemLast'.op # "none" =>
          \A B \in IdemTenants \ {idemLast'.tenant} :
             Check(kv', buildKey(B, idemLast'.key))
                = Check(kv, buildKey(B, idemLast'.key))]_vars

\* Tenant a has just stored a result under key k while tenant b's
\* reservation of the same key k is still in place and tenant a:b has nothing
\* under it.
C33_Witness ==
    /\ idemLast = [op |-> "store", tenant |-> "a", key |-> "k"]
    /\ Check(kv, buildKey("a", "k")).kind = "result"
    /\ Check(kv, buildKey("b", "k")) = processingMarker
    /\ Check(kv, buildKey("a:b", "k")) = Absent


\* C32: the operator status override answers with a client error, and leaves
\* every stored notification as it was, when the body names a target status
\* other than pending, processing, sent or failed (so dead_lettered cannot be
\* set through it) or a negative attempt.
C32_OverrideRejectsInvalidBody ==
    [][lastPatch' # lastPatch =>
          /\ ( \/ lastPatch'.status \notin {"pending", "processing", "sent", "failed"}
               \/ lastPatch'.attempt < 0 )
             => /\ lastPatch'.code \in 400..499
                /\ notifs' = notifs
          /\ \A i \in DOMAIN notifs :
                notifs'[i].status = "dead_lettered" => notifs[i].status = "dead_lettered"]_vars

\* An override naming dead_lettered has been answered 400 after an earlier
\* override was applied to one of two stored notifications.
C32_Witness ==
    /\ lastPatch = [status |-> "dead_lettered", attempt |-> 0, code |-> 400]
    /\ patches = 1
    /\ Len(notifs) = 2
    /\ notifs[1].status = "sent" /\ notifs[2].status = "pending"


\* C31: a request to accept a notification whose body is not JSON, lacks
\* tenant_id, user_id or channel, names an unknown channel, has a tenant_id or
\* user_id that is not a UUID, or has a payload that is not valid JSON, is
\* answered with a client error at once: no notification is persisted and no
\* idempotency key is reserved for it.
C31_InvalidRequestRejectedWithoutEffect ==
    [][lastReq' # lastReq =>
          LET b == lastReq'.body
              r == lastReq'.r
          IN  ( \/ ~b.json
                \/ b.tenant \in {"", "bad"}
                \/ b.user \in {"", "bad"}
                \/ b.channel \notin {"email", "sms", "webhook"}
                \/ ~b.payload )
              => /\ reqs'[r].pc = "done"
                 /\ reqs'[r].resp.code \in 400..499
                 /\ notifs' = notifs
                 /\ cache' = cache]_vars

\* A request naming the channel push has just been answered 400, after
\* another request with the same key was accepted: the one stored
\* notification and the stored outcome of the key are the other request's.
C31_Witness ==
    /\ lastReq.r = "r1" /\ lastReq.body.channel = "push"
    /\ reqs["r1"].pc = "done" /\ reqs["r1"].resp.code = 400
    /\ reqs["r1"].resp.kind = "Invalid channel"
    /\ reqs["r2"].pc = "done" /\ reqs["r2"].resp.kind = "created"
    /\ Len(notifs) = 1 /\ notifs[1].by = "r2"
    /\ cache[buildKey("t1", "k1")] = IdempotencyResult(1, StatusCreated)

====
